---------------------------- MODULE Spec2Model ----------------------------
(***************************************************************************)
(* A model of Qiner-Rust: the identity codec (converters.rs), the packet   *)
(* builder (network.rs), the Keccak expander (math.rs), the scoring kernel *)
(* and the worker loop (miner.rs) and the solution sender (main.rs).       *)
(*                                                                         *)
(* Machine words are kept at their width.  TLC's integers are 32 bits      *)
(* wide, so a u64 is the sequence of its 8 bytes, least significant first  *)
(* (the x86_64 memory image the code itself reads through its pointer      *)
(* casts and transmutes), and the arithmetic on it is done byte by byte    *)
(* with carries.                                                           *)
(***************************************************************************)
EXTENDS Integers, Sequences, FiniteSets, TLC

(***************************************************************************)
(* Bytes and 64-bit words                                                  *)
(***************************************************************************)
Byte == 0..255

RECURSIVE BitAnd(_, _)
BitAnd(a, b) ==
    IF a = 0 \/ b = 0 THEN 0
    ELSE (a % 2) * (b % 2) + 2 * BitAnd(a \div 2, b \div 2)

RECURSIVE BitXor(_, _)
BitXor(a, b) ==
    IF a = 0 THEN b
    ELSE IF b = 0 THEN a
    ELSE ((a + b) % 2) + 2 * BitXor(a \div 2, b \div 2)

\* !x on a u8
BitNot8(a) == 255 - a

RECURSIVE Pow(_, _)
Pow(b, e) == IF e = 0 THEN 1 ELSE b * Pow(b, e - 1)

\* size_of::<u64>()
U64Bytes == 8

\* the u64 whose value is the small natural n (n < 2^31)
ToU64(n) == [k \in 1..U64Bytes |-> IF k <= 4 THEN (n \div Pow(256, k - 1)) % 256 ELSE 0]

U64Zero == [k \in 1..U64Bytes |-> 0]
U64Max == [k \in 1..U64Bytes |-> 255]

\* a & b on u64
And64(a, b) == [k \in 1..U64Bytes |-> BitAnd(a[k], b[k])]

RECURSIVE Flatten(_)
Flatten(ss) == IF ss = <<>> THEN <<>> ELSE Head(ss) \o Flatten(Tail(ss))

\* the memory image of an array of u64 (little endian)
WordsToBytes(ws) == Flatten(ws)

\* the array of u64 read back from its memory image
BytesToWords(bs) ==
    [w \in 1..(Len(bs) \div U64Bytes) |-> SubSeq(bs, (w - 1) * U64Bytes + 1, w * U64Bytes)]


(***************************************************************************)
(* KangarooTwelve (crate k12) and Keccak-p[1600] (crate keccak) are not    *)
(* code of this repository.  They are modelled as fixed deterministic      *)
(* functions of their whole input: what the repository relies on is that   *)
(* the digest is a function of the bytes absorbed since the last reset,    *)
(* and that the permuted state is a function of the state and the rounds.  *)
(***************************************************************************)
\* the digest state of bs[lo..hi], halving the range
RECURSIVE Absorb(_, _, _)
Absorb(bs, lo, hi) ==
    IF lo > hi THEN 7
    ELSE IF lo = hi THEN (bs[lo] + 1) * 257 % 65521
    ELSE LET mid == (lo + hi) \div 2
         IN  (Absorb(bs, lo, mid) * 131 + Absorb(bs, mid + 1, hi) * 31 + hi - lo) % 65521

\* KangarooTwelve::default(), update(msg), finalize_xof_into(n bytes)
K12(msg, n) ==
    LET h == Absorb(msg, 1, Len(msg))
    IN  [k \in 1..n |-> (((h + k) * ((h % 251) + k)) \div 7) % 256]

(***************************************************************************)
(* Identity codec (converters.rs)                                          *)
(***************************************************************************)
\* 'A', 'Z'
LetterA == 65
LetterZ == 90
\* the base of the identity alphabet
IdBase == 26
\* limbs of a PublicKey64, digits per limb, bytes of an Id
NumLimbs == 4
LimbDigits == 14
IdLen == 60

\* x * 26 + d on u64, byte by byte; the carry out of byte 8 is the overflow
RECURSIVE MulAddFrom(_, _, _, _)
MulAddFrom(x, k, carry, acc) ==
    IF k > U64Bytes THEN [val |-> acc, carry |-> carry]
    ELSE LET t == x[k] * IdBase + carry
         IN  MulAddFrom(x, k + 1, t \div 256, Append(acc, t % 256))

MulAdd26(x, d) == MulAddFrom(x, 1, d, <<>>)

\* x / 26 and x % 26 on u64, long division from the top byte
RECURSIVE DivModFrom(_, _, _, _)
DivModFrom(x, k, rem, acc) ==
    IF k = 0 THEN [quot |-> acc, rem |-> rem]
    ELSE LET cur == rem * 256 + x[k]
         IN  DivModFrom(x, k - 1, cur % IdBase, <<cur \div IdBase>> \o acc)

DivMod26(x) == DivModFrom(x, U64Bytes, 0, <<>>)

\* the 14 letters of one limb: fragment % 26 + 'A', fragment /= 26
RECURSIVE LimbLetters(_, _)
LimbLetters(fragment, j) ==
    IF j = LimbDigits THEN <<>>
    ELSE LET dm == DivMod26(fragment)
         IN  <<dm.rem + LetterA>> \o LimbLetters(dm.quot, j + 1)

\* the 4 checksum letters: checksum % 26 + 'A', checksum /= 26
RECURSIVE ChecksumLetters(_, _)
ChecksumLetters(c, i) ==
    IF i = 4 THEN <<>>
    ELSE <<(c % IdBase) + LetterA>> \o ChecksumLetters(c \div IdBase, i + 1)

\* K12 of the 32 key bytes, 3 bytes of output as a 24-bit integer, & 0x3FFFF
IdentityBytesChecksum(public_key) ==
    LET result == K12(WordsToBytes(public_key), 3)
    IN  (result[1] + result[2] * 256 + result[3] * 65536) % 262144

get_id_from_public_key_64(public_key) ==
    Flatten([i \in 1..NumLimbs |-> LimbLetters(public_key[i], 0)])
        \o ChecksumLetters(IdentityBytesChecksum(public_key), 0)

DefaultPublicKey64 == [i \in 1..NumLimbs |-> U64Zero]

\* IdValue with the digits of a limb read in ascending order (a decoder whose
\* inner loop lost its .rev())
IdValueAscending(id, i, j) == id[i * LimbDigits + (LimbDigits - 1 - j) + 1]

\* the letter of limb i (0-based) and digit j (0-based)
IdValue(id, i, j) == id[i * LimbDigits + j + 1]

\* IsLetter without its lower bound
IsLetterNoLowerBound(id_value) == id_value <= LetterZ

\* id_value < 'A' || id_value > 'Z' is the rejection test
IsLetter(id_value) == id_value >= LetterA /\ id_value <= LetterZ

\* the inner loop of the decoder for limb i from digit j down to 0: the first
\* byte met outside 'A'..'Z' ends it (bad).  overflow records whether some
\* public_key[i] * 26 + delta left the u64 range.
RECURSIVE DecodeLimb(_, _, _, _, _)
DecodeLimb(id, i, j, acc, overflow) ==
    IF j < 0 THEN [bad |-> FALSE, val |-> acc, overflow |-> overflow]
    ELSE IF ~IsLetter(IdValue(id, i, j))
    THEN [bad |-> TRUE, val |-> U64Zero, overflow |-> overflow]
    ELSE LET ma == MulAdd26(acc, IdValue(id, i, j) - LetterA)
         IN  IF ma.carry # 0
             THEN DecodeLimb(id, i, j - 1, ma.val, TRUE)
             ELSE DecodeLimb(id, i, j - 1, ma.val, overflow)

\* the outer loop of the decoder from limb i on: a bad byte ends the call with
\* false and a cleared key
RECURSIVE DecodeFrom(_, _, _, _)
DecodeFrom(id, i, public_key, overflow) ==
    IF i = NumLimbs
    THEN [ok |-> TRUE, public_key |-> public_key, overflow |-> overflow]
    ELSE LET r == DecodeLimb(id, i, LimbDigits - 1, public_key[i + 1], overflow)
         IN  IF r.bad
             THEN [ok |-> FALSE, public_key |-> DefaultPublicKey64, overflow |-> r.overflow]
             ELSE DecodeFrom(id, i + 1, [public_key EXCEPT ![i + 1] = r.val], r.overflow)

get_public_key_64_from_id(id) ==
    DecodeFrom(id, 0, DefaultPublicKey64, FALSE)

(***************************************************************************)
(* Packet builder (network.rs)                                             *)
(***************************************************************************)
\* NUMBER_OF_NONCE, NUMBER_OF_NONCE_64, KEY_ITEM_NUM, DEJAVU_ITEM_NUM,
\* the bytes of Size, the words of Signature, BROADCAST_MESSAGE
NUMBER_OF_NONCE == 32
NUMBER_OF_NONCE_64 == 4
KEY_ITEM_NUM == 32
DEJAVU_ITEM_NUM == 3
SizeBytes == 3
SignatureWords == 8
BROADCAST_MESSAGE == 1

Zeroed(n) == [k \in 1..n |-> 0]

\* a ^ b on byte arrays
XorBytes(a, b) == [k \in 1..Len(a) |-> BitXor(a[k], b[k])]

\* KangarooTwelve as the packet builder holds it: the bytes absorbed since the
\* last reset
HasherDefault == <<>>
update(hasher, data) == hasher \o data

\* finalize_xof_reset_into without the reset
finalize_xof_into_keep(hasher, n) == [out |-> K12(hasher, n), hasher |-> hasher]

finalize_xof_reset_into(hasher, n) == [out |-> K12(hasher, n), hasher |-> HasherDefault]

\* set_size with the three bytes taken one place too high
set_size_shifted(header, new_size) ==
    [header EXCEPT !.size = SubSeq(ToU64(new_size), 2, SizeBytes + 1)]

\* transmute_copy::<usize, Size>: the low 3 bytes of the usize
set_size(header, new_size) ==
    [header EXCEPT !.size = SubSeq(ToU64(new_size), 1, SizeBytes)]

\* the 3-byte size field as a little-endian integer
SizeField(header) == header.size[1] + header.size[2] * 256 + header.size[3] * 65536

\* self.protocol = version[1] (0-based)
set_protocol(header, version) == [header EXCEPT !.protocol = version[2]]

\* zeroed_dejavu writing a non-zero tag
zeroed_dejavu_nonzero(header) == [header EXCEPT !.dejavu = <<1, 0, 0>>]

zeroed_dejavu(header) == [header EXCEPT !.dejavu = Zeroed(DEJAVU_ITEM_NUM)]

\* transmute_copy::<u32, Dejavu>(&random): the low 3 bytes of the draw
randomize_dejavu(header, random) ==
    [header EXCEPT !.dejavu = SubSeq(random, 1, DEJAVU_ITEM_NUM)]

is_dejavu_zero(header) == \A k \in 1..DEJAVU_ITEM_NUM : header.dejavu[k] = 0

set_type(header, new_type) == [header EXCEPT !.type = new_type]

HeaderDefault ==
    [size |-> Zeroed(SizeBytes), protocol |-> 0, dejavu |-> Zeroed(DEJAVU_ITEM_NUM), type |-> 0]

\* RequestResponseHeader::new
RequestResponseHeaderNew(in_type, in_size, version) ==
    set_type(zeroed_dejavu(set_protocol(set_size(HeaderDefault, in_size), version)), in_type)

MessageDefault ==
    [source_public_key |-> DefaultPublicKey64,
     destination_public_key |-> DefaultPublicKey64,
     gamming_nonce |-> [k \in 1..NUMBER_OF_NONCE_64 |-> U64Zero]]

\* the message with the two keys exchanged
MessageForSwapped(computor_public_key) ==
    [MessageDefault EXCEPT !.source_public_key = computor_public_key,
                           !.destination_public_key = DefaultPublicKey64]

\* message.source_public_key = default; message.destination_public_key = key
MessageFor(computor_public_key) ==
    [MessageDefault EXCEPT !.source_public_key = DefaultPublicKey64,
                           !.destination_public_key = computor_public_key]

\* the sampling loop leaves on a non-zero first key byte
LeavesLoopOnNonZero(gamming_key) == gamming_key[1] # 0

\* if (gamming_key[0]) == 0 { break; }
LeavesLoop(gamming_key) == gamming_key[1] = 0

(***************************************************************************)
(* The memory image of a Packet.  The structs carry no #[repr]: the order  *)
(* of the four fields of Packet in memory is the compiler's choice; each   *)
(* field sits at a multiple of its alignment and the size is a multiple of *)
(* the largest alignment.  RequestResponseHeader holds bytes only (size 8, *)
(* alignment 1); the other three are arrays of u64.                        *)
(***************************************************************************)
PacketFields == {"header", "message", "solution_nonce", "signature"}

DeclaredOrder == <<"header", "message", "solution_nonce", "signature">>

FieldSize(f) ==
    CASE f = "header" -> SizeBytes + 1 + DEJAVU_ITEM_NUM + 1
      [] f = "message" -> (NumLimbs + NumLimbs + NUMBER_OF_NONCE_64) * U64Bytes
      [] f = "solution_nonce" -> NUMBER_OF_NONCE_64 * U64Bytes
      [] f = "signature" -> SignatureWords * U64Bytes

FieldAlign(f) == IF f = "header" THEN 1 ELSE U64Bytes

AlignUp(offset, a) == ((offset + a - 1) \div a) * a

\* the offset of the k-th field of an order
RECURSIVE FieldOffset(_, _)
FieldOffset(order, k) ==
    IF k = 1 THEN 0
    ELSE AlignUp(FieldOffset(order, k - 1) + FieldSize(order[k - 1]), FieldAlign(order[k]))

\* size_of::<Packet>()
SizeOfPacket(order) ==
    AlignUp(FieldOffset(order, Len(order)) + FieldSize(order[Len(order)]), U64Bytes)

PacketLayouts ==
    {o \in [1..4 -> PacketFields] : \A f \in PacketFields : \E k \in 1..4 : o[k] = f}

HeaderBytes(header) == header.size \o <<header.protocol>> \o header.dejavu \o <<header.type>>

\* RequestResponseHeader has no #[repr]: the order of its four fields in
\* memory is the build's choice (all of them have alignment 1, so there is no
\* padding)
HeaderFields == {"size", "protocol", "dejavu", "type"}

HeaderLayouts ==
    {o \in [1..4 -> HeaderFields] : \A f \in HeaderFields : \E k \in 1..4 : o[k] = f}

HeaderFieldBytes(header, f) ==
    CASE f = "size" -> header.size
      [] f = "protocol" -> <<header.protocol>>
      [] f = "dejavu" -> header.dejavu
      [] f = "type" -> <<header.type>>

HeaderImageFrom(header, order, k) ==
    Flatten([j \in 1..(Len(order) - k + 1) |-> HeaderFieldBytes(header, order[k + j - 1])])

\* network.rs:42-46: ptr::read_unaligned of a usize at the address of the
\* size field: the 3 bytes of the field and the 5 bytes that follow it in
\* memory, the rest of the header first and then whatever lies behind it
get_size(header, order, behind) ==
    SubSeq(HeaderImageFrom(header, order, CHOOSE k \in 1..4 : order[k] = "size") \o behind,
           1, U64Bytes)

MessageBytes(message) ==
    WordsToBytes(message.source_public_key) \o WordsToBytes(message.destination_public_key)
        \o WordsToBytes(message.gamming_nonce)

FieldBytes(packet, f) ==
    CASE f = "header" -> HeaderBytes(packet.header)
      [] f = "message" -> MessageBytes(packet.message)
      [] f = "solution_nonce" -> WordsToBytes(packet.solution_nonce)
      [] f = "signature" -> WordsToBytes(packet.signature)

\* transmute::<Packet, [u8; size_of::<Packet>()]>: no order leaves padding
\* (every field size is a multiple of 8), so the image is the fields' bytes
PacketBytes(packet, order) ==
    Flatten([k \in 1..Len(order) |-> FieldBytes(packet, order[k])])

(***************************************************************************)
(* Keccak expander (math.rs)                                               *)
(*                                                                         *)
(* A value that a later step reads many times is bound as the one element  *)
(* of a set, CHOOSE out \in {e(x) : x \in {v}} : TRUE, which is e(v) with   *)
(* v computed once, as the code computes it once and stores it.            *)
(***************************************************************************)
\* STATE_SIZE_64, KECCAK_ROUND
STATE_SIZE_64 == 25
KECCAK_ROUND == 12

\* the sequence with the elements of f, each computed once
Tuple(f) == f \o <<>>

\* one round of the stand-in for Keccak-p[1600]: the words are rotated by 17
\* places, every word takes in its neighbour with the bytes rotated by one, and
\* a round constant is added.  Only what random_64 relies on is kept: the
\* result is a function of the state and of the round number.
KeccakRound(state, r) ==
    Tuple([i \in 1..STATE_SIZE_64 |->
        LET a == state[((i - 1 + 17) % STATE_SIZE_64) + 1]
            b == state[((i + 17) % STATE_SIZE_64) + 1]
        IN  Tuple([k \in 1..U64Bytes |->
                (a[k] * 5 + b[(k % U64Bytes) + 1] + r * 29 + i * 7 + k * 3) % 256])])

\* keccak::p1600(&mut state, round_count)
RECURSIVE p1600(_, _)
p1600(state, round_count) ==
    IF round_count = 0 THEN state
    ELSE CHOOSE out \in { KeccakRound(prev, round_count) :
                            prev \in {p1600(state, round_count - 1)} } : TRUE

\* math.rs:32: output.chunks_mut(STATE_SIZE_64): the length of the chunk that
\* starts at output word `done`
ChunkLenOneLess(S, done) ==
    IF S - done < STATE_SIZE_64 - 1 THEN S - done ELSE STATE_SIZE_64 - 1

ChunkLen(S, done) == IF S - done < STATE_SIZE_64 THEN S - done ELSE STATE_SIZE_64

\* the chunks of random_64 from output word `done` on: one permutation per
\* chunk of up to 25 words, the state carried from chunk to chunk
RECURSIVE SqueezeFrom(_, _, _)
SqueezeFrom(state, done, S) ==
    IF done >= S THEN <<>>
    ELSE LET n == ChunkLen(S, done)
         IN  CHOOSE out \in { SubSeq(next, 1, n) \o SqueezeFrom(next, done + n, S) :
                                next \in {p1600(state, KECCAK_ROUND)} } : TRUE

\* random_64(public_key, nonce, output: [u64; S])
random_64(public_key, nonce, S) ==
    LET state == Tuple([i \in 1..STATE_SIZE_64 |->
                    IF i <= Len(public_key) THEN Tuple(public_key[i])
                    ELSE IF i <= Len(public_key) + Len(nonce)
                         THEN Tuple(nonce[i - Len(public_key)])
                    ELSE Tuple(U64Zero)])
    IN  CHOOSE out \in { SqueezeFrom(absorbed, 0, S) : absorbed \in {state} } : TRUE

(***************************************************************************)
(* Scoring kernel (miner.rs).  The circuit and the tape are scaled: the    *)
(* model runs 2^NeuronBits neurons (the code 2^22) against a tape of       *)
(* MINING_DATA_LENGTH words (the code 1024).                               *)
(***************************************************************************)
NeuronBits == 2
MINING_DATA_LENGTH == 2

NUMBER_OF_NEURONS == Pow(2, NeuronBits)

\* size_of::<NeuronLink>()
NeuronLinkBytes == 4

NUMBER_OF_NEURONS_64 == (NUMBER_OF_NEURONS * NeuronLinkBytes) \div U64Bytes

\* the words of NeuronLinks64
LinkWords == NUMBER_OF_NEURONS_64 * 2

\* ((N - 1) << 32) | (N - 1)
NEURON_MOD_BITS ==
    LET m == ToU64(NUMBER_OF_NEURONS - 1)
    IN  [k \in 1..U64Bytes |-> IF k <= NeuronLinkBytes THEN m[k] ELSE m[k - NeuronLinkBytes]]

\* the masking loop covering the first half of the table only
MaskLinksFirstHalf(links) ==
    Tuple([k \in 1..LinkWords |->
        IF k <= NUMBER_OF_NEURONS_64 THEN Tuple(And64(links[k], NEURON_MOD_BITS))
        ELSE links[k]])

\* miner.rs:147-150: words idx and NUMBER_OF_NEURONS_64 + idx, idx in 0..N_64
MaskLinks(links) == Tuple([k \in 1..LinkWords |-> Tuple(And64(links[k], NEURON_MOD_BITS))])

\* word as NeuronLink, (word >> 32) as NeuronLink
LinkLow(word) == SubSeq(word, 1, NeuronLinkBytes)
LinkHigh(word) == SubSeq(word, NeuronLinkBytes + 1, U64Bytes)

\* a u32 link is a valid index of neuron_values
LinkInRange(link) ==
    /\ link[3] = 0
    /\ link[4] = 0
    /\ link[1] + link[2] * 256 < NUMBER_OF_NEURONS

\* the index a link in range names (0-based)
LinkIndex(link) == link[1] + link[2] * 256

\* !(values[a] & values[b])
NandLogical(values, a, b) ==
    IF BitAnd(values[LinkIndex(a) + 1], values[LinkIndex(b) + 1]) = 0 THEN 1 ELSE 0

Nand(values, a, b) == BitNot8(BitAnd(values[LinkIndex(a) + 1], values[LinkIndex(b) + 1]))

\* miner.rs:160-174, from idx on: the neurons 2 idx and 2 idx + 1 are rewritten
\* in place, in order; an index out of range ends the call (panic)
RECURSIVE NeuronPass(_, _, _)
NeuronPass(links, values, idx) ==
    IF idx = NUMBER_OF_NEURONS_64 THEN [values |-> values, panic |-> FALSE]
    ELSE LET lw == links[2 * idx + 1]
             rw == links[2 * idx + 2]
         IN  IF ~(LinkInRange(LinkLow(lw)) /\ LinkInRange(LinkHigh(lw))
                    /\ LinkInRange(LinkLow(rw)) /\ LinkInRange(LinkHigh(rw)))
             THEN [values |-> values, panic |-> TRUE]
             ELSE LET v0 == Nand(values, LinkLow(lw), LinkHigh(lw))
                      v1 == Nand(values, LinkLow(rw), LinkHigh(rw))
                  IN  CHOOSE out \in
                          { NeuronPass(links, next, idx + 1) :
                              next \in {[values EXCEPT ![2 * idx + 1] = v0,
                                                       ![2 * idx + 2] = v1]} } : TRUE

\* bits of a tape word
WordBits == 64

\* (mining_data[score >> 6] >> (score & 63)) & 1
TapeBit(tape, score) ==
    LET word == tape[(score \div WordBits) + 1]
    IN  (word[((score % WordBits) \div 8) + 1] \div Pow(2, score % 8)) % 2

\* miner.rs:182 and 187: an A-event ends the run on a clear bit, a B-event on
\* a set bit
BitEndsRunAlike(event, bit) == bit = 0

BitEndsRun(event, bit) == IF event = "A" THEN bit = 0 ELSE bit = 1

\* miner.rs:181: current_value0 != prev_value0 && current_value1 == prev_value1
IsAEventAnyChange(prev0, prev1, cur0, cur1) == cur0 # prev0

IsAEvent(prev0, prev1, cur0, cur1) == cur0 # prev0 /\ cur1 = prev1

\* miner.rs:186: current_value1 != prev_value1 && current_value0 == prev_value0
IsBEvent(prev0, prev1, cur0, cur1) == cur1 # prev1 /\ cur0 = prev0

\* miner.rs:192: remaining_iterations -= 1
RemainingKept(remaining) == remaining

RemainingAfterNeutral(remaining) == remaining - 1

\* miner.rs:176-196: what a round makes of the pass, given the two last
\* neurons as they were before it
RoundOutcome(prev0, prev1, pass, tape, score, remaining) ==
    LET cur0 == pass.values[NUMBER_OF_NEURONS]
        cur1 == pass.values[NUMBER_OF_NEURONS - 1]
    IN  IF pass.panic \/ (score \div WordBits) >= MINING_DATA_LENGTH
        THEN [values |-> pass.values, score |-> score, remaining |-> remaining,
              status |-> "panic", event |-> "none"]
        ELSE IF IsAEvent(prev0, prev1, cur0, cur1)
        THEN IF BitEndsRun("A", TapeBit(tape, score))
             THEN [values |-> pass.values, score |-> score, remaining |-> remaining,
                   status |-> "break", event |-> "A"]
             ELSE [values |-> pass.values, score |-> score + 1, remaining |-> remaining,
                   status |-> "continue", event |-> "A"]
        ELSE IF IsBEvent(prev0, prev1, cur0, cur1)
        THEN IF BitEndsRun("B", TapeBit(tape, score))
             THEN [values |-> pass.values, score |-> score, remaining |-> remaining,
                   status |-> "break", event |-> "B"]
             ELSE [values |-> pass.values, score |-> score + 1, remaining |-> remaining,
                   status |-> "continue", event |-> "B"]
        ELSE [values |-> pass.values, score |-> score,
              remaining |-> RemainingAfterNeutral(remaining),
              status |-> IF RemainingAfterNeutral(remaining) = 0 THEN "break" ELSE "continue",
              event |-> "neutral"]

\* miner.rs:157-196: one round of the scoring loop: the two last neurons
\* before the pass, the pass, and what lines 176-196 make of it
ScoringRound(links, values, tape, score, remaining) ==
    CHOOSE out \in
        { RoundOutcome(values[NUMBER_OF_NEURONS], values[NUMBER_OF_NEURONS - 1],
                       pass, tape, score, remaining) :
            pass \in {NeuronPass(links, values, 0)} } : TRUE

\* miner.rs:156-197: the rounds until the loop breaks (or the call panics)
RECURSIVE ScoringLoop(_, _, _, _, _, _)
ScoringLoop(links, values, tape, score, remaining, rounds) ==
    CHOOSE out \in
        { IF r.status = "continue"
          THEN ScoringLoop(links, r.values, tape, r.score, r.remaining, rounds + 1)
          ELSE [values |-> r.values, score |-> r.score, remaining |-> r.remaining,
                panic |-> r.status = "panic", rounds |-> rounds + 1] :
            r \in {ScoringRound(links, values, tape, score, remaining)} } : TRUE

\* miner.rs:199: score >= self.solution_threshold
ScoreBelowThreshold(score, solution_threshold) == solution_threshold >= score

ScoreAboveThreshold(score, solution_threshold) == score > solution_threshold

ScoreMeetsThreshold(score, solution_threshold) == score >= solution_threshold

\* The words of a link table are Keccak-p[1600] output, which the stand-in
\* above spreads thinly over the tables there are.  For three nonces the
\* expander is taken to yield a table chosen for the run it makes from
\* neuron values all 0, given by the two links of each neuron (every bit the
\* mask clears is set):
\*   "A":  the last neuron is its own negation and the one before it keeps
\*         its value, an A-event in every round;
\*   "B":  the same with the two neurons exchanged, a B-event in every round;
\*   "AB": an A-event in the first round and a B-event in the second.
LinkWord(left, right) ==
    <<left + (256 - NUMBER_OF_NEURONS), 255, 255, 255,
      right + (256 - NUMBER_OF_NEURONS), 255, 255, 255>>

PatternNonce(kind) ==
    CASE kind = "A" -> [k \in 1..NUMBER_OF_NONCE_64 |-> ToU64(1001)]
      [] kind = "B" -> [k \in 1..NUMBER_OF_NONCE_64 |-> ToU64(1002)]
      [] kind = "AB" -> [k \in 1..NUMBER_OF_NONCE_64 |-> ToU64(1003)]

PatternNonces == { PatternNonce(kind) : kind \in {"A", "B", "AB"} }

PatternLinksOf(kind) ==
    LET N == NUMBER_OF_NEURONS
    IN  Tuple([w \in 1..LinkWords |->
            LET j == w - 1
            IN  CASE kind = "A" /\ j = N - 1 -> LinkWord(N - 1, N - 1)
                  [] kind = "A" /\ j = N - 2 -> LinkWord(N - 3, N - 3)
                  [] kind = "A" /\ j = N - 3 -> LinkWord(N - 2, N - 2)
                  [] kind = "B" /\ j = N - 1 -> LinkWord(N - 3, N - 3)
                  [] kind = "B" /\ j = N - 2 -> LinkWord(N - 2, N - 2)
                  [] kind = "B" /\ j = N - 3 -> LinkWord(N - 1, N - 1)
                  [] kind = "AB" /\ j = N - 1 -> LinkWord(N - 2, N - 4)
                  [] kind = "AB" /\ j = N - 2 -> LinkWord(N - 4, N - 4)
                  [] kind = "AB" /\ j = N - 3 -> LinkWord(N - 2, N - 2)
                  [] kind = "AB" /\ j = N - 4 -> LinkWord(N - 3, N - 3)
                  [] OTHER -> LinkWord(0, 0)])

PatternLinks(nonce) ==
    PatternLinksOf(CHOOSE kind \in {"A", "B", "AB"} : PatternNonce(kind) = nonce)

\* the values generate_random_u64 delivers for the four words of a nonce
MinerNonces ==
    { <<U64Zero, U64Zero, U64Zero, U64Zero>>,
      <<ToU64(1), U64Zero, U64Zero, U64Zero>> }

\* the random seed of the tape, the operator's key and the threshold setting
MinerSeeds == { <<ToU64(1), ToU64(2), ToU64(3), ToU64(4)>> }
MinerKeys == { <<U64Max, ToU64(123456789), U64Zero, ToU64(26)>> }
Thresholds == {0, 1}

\* the keys, nonces and seeds of the calls of find_solution taken one by one
KernelKeys == MinerKeys \cup { <<ToU64(1), ToU64(2), ToU64(3), ToU64(4)>> }
KernelNonces ==
    MinerNonces \cup
    { <<w, w, w, w>> : w \in {ToU64(7), ToU64(123456789), ToU64(987654321), U64Max} }
    \cup PatternNonces
KernelSeeds == MinerSeeds \cup { <<U64Max, U64Zero, ToU64(5), ToU64(6)>> }

\* the link table random_64 writes for every key and nonce above, and the
\* table after masking, each derived once
DerivedLinks ==
    [public_key \in KernelKeys, nonce \in KernelNonces |->
        IF nonce \in PatternNonces THEN PatternLinks(nonce)
        ELSE random_64(public_key, nonce, LinkWords)]
MaskedLinks ==
    [public_key \in KernelKeys, nonce \in KernelNonces |->
        MaskLinks(DerivedLinks[public_key, nonce])]

\* miner.rs:144: random_64(&self.public_key, nonce, &mut neuron_data.neuron_links)
derive_links(public_key, nonce) ==
    IF <<public_key, nonce>> \in DOMAIN DerivedLinks
    THEN DerivedLinks[public_key, nonce]
    ELSE IF nonce \in PatternNonces THEN PatternLinks(nonce)
    ELSE random_64(public_key, nonce, LinkWords)

\* Miner::find_solution for the nonce drawn, from the neuron values the worker
\* holds: the masked link table, the loop's outcome and score >= threshold
find_solution(public_key, nonce, values, tape, solution_threshold) ==
    LET links == IF <<public_key, nonce>> \in DOMAIN MaskedLinks
                 THEN MaskedLinks[public_key, nonce]
                 ELSE MaskLinks(derive_links(public_key, nonce))
    IN  CHOOSE out \in
            { [links |-> links, values |-> run.values, score |-> run.score,
               remaining |-> run.remaining, rounds |-> run.rounds, panic |-> run.panic,
               result |-> (~run.panic
                           /\ ScoreMeetsThreshold(run.score, solution_threshold))] :
                run \in {ScoringLoop(links, values, tape, 0, MINING_DATA_LENGTH, 0)} } : TRUE

(***************************************************************************)
(* Settings read from the environment (random_seed.rs, version.rs,         *)
(* solution_thresholds.rs, main.rs).  A string is the sequence of its      *)
(* characters; a variable of the environment is unset or holds a string.   *)
(***************************************************************************)
\* SEED_ITEM_NUM, the items of Version, RANDOM_SEED_SPLIT_CHAR,
\* VERSION_SPLIT_CHAR
SEED_ITEM_NUM == 32
VersionItems == 3
RANDOM_SEED_SPLIT_CHAR == ","
VERSION_SPLIT_CHAR == "."

Unset == [set |-> FALSE, text |-> <<>>]
Setting(text) == [set |-> TRUE, text |-> text]

DigitChars == <<"0", "1", "2", "3", "4", "5", "6", "7", "8", "9">>
IsDigit(c) == \E d \in 1..10 : DigitChars[d] = c
DigitValue(c) == (CHOOSE d \in 1..10 : DigitChars[d] = c) - 1

\* char::is_whitespace, for the characters of the strings explored
IsWhitespace(c) == c \in {" ", "\t", "\n"}

\* str::split: the items between the separators, one more than there are
\* separators (the empty string has one empty item)
SeparatorsAt(text, sep) == {i \in 1..Len(text) : text[i] = sep}

\* the place of the j-th separator of those at the places seps, 0 for j = 0
\* and one past the end for the one after the last
SeparatorPlace(text, seps, j) ==
    IF j = 0 THEN 0
    ELSE IF j > Cardinality(seps) THEN Len(text) + 1
    ELSE CHOOSE i \in seps : Cardinality({k \in seps : k < i}) = j - 1

SplitAt(text, seps) ==
    Tuple([j \in 1..(Cardinality(seps) + 1) |->
        SubSeq(text, SeparatorPlace(text, seps, j - 1) + 1,
                     SeparatorPlace(text, seps, j) - 1)])

Split(text, sep) ==
    CHOOSE items \in { SplitAt(text, seps) : seps \in {SeparatorsAt(text, sep)} } : TRUE

\* str::trim: leading and trailing whitespace removed
TrimNothing(item) == item

Trim(item) ==
    LET kept == {i \in 1..Len(item) : ~IsWhitespace(item[i])}
    IN  IF kept = {} THEN <<>>
        ELSE SubSeq(item, CHOOSE i \in kept : \A k \in kept : i <= k,
                          CHOOSE i \in kept : \A k \in kept : k <= i)

\* str::parse for an unsigned integer type with the largest value max: an
\* optional '+', then at least one digit and digits only, the value
\* accumulated digit by digit and refused when it passes max
RECURSIVE ParseDigits(_, _, _)
ParseDigits(digits, max, acc) ==
    IF digits = <<>> THEN [ok |-> TRUE, value |-> acc]
    ELSE IF ~IsDigit(Head(digits)) THEN [ok |-> FALSE, value |-> 0]
    ELSE IF acc * 10 + DigitValue(Head(digits)) > max THEN [ok |-> FALSE, value |-> 0]
    ELSE ParseDigits(Tail(digits), max, acc * 10 + DigitValue(Head(digits)))

ParseUnsigned(item, max) ==
    LET digits == IF item # <<>> /\ Head(item) = "+" THEN Tail(item) ELSE item
    IN  IF digits = <<>> THEN [ok |-> FALSE, value |-> 0]
        ELSE ParseDigits(digits, max, 0)

\* u8::MAX; and the largest threshold and thread count the model reads (the
\* settings explored stay far below usize::MAX)
U8Max == 255
UsizeModelMax == 1000000

\* random_seed.rs:12-28: the seed of zeros, then item by item of the split
\* zipped with the 32 places of the seed; a failing parse panics
RECURSIVE SeedFrom(_, _, _)
SeedFrom(items, i, seed) ==
    IF i > Len(items) \/ i > SEED_ITEM_NUM THEN [panic |-> FALSE, seed |-> seed]
    ELSE CHOOSE out \in
             { IF ~parsed.ok THEN [panic |-> TRUE, seed |-> seed]
               ELSE SeedFrom(items, i + 1, [seed EXCEPT ![i] = parsed.value]) :
                 parsed \in {ParseUnsigned(Trim(items[i]), U8Max)} } : TRUE

get_random_seed(env) ==
    IF ~env.set THEN [panic |-> TRUE, seed |-> Zeroed(SEED_ITEM_NUM)]
    ELSE CHOOSE out \in
             { SeedFrom(items, 1, Zeroed(SEED_ITEM_NUM)) :
                 items \in {Split(env.text, RANDOM_SEED_SPLIT_CHAR)} } : TRUE

\* version.rs:24-40: every item of the split is parsed and stored at its
\* index; an index past the third, or a failing parse, panics
RECURSIVE VersionFrom(_, _, _)
VersionFrom(items, i, version) ==
    IF i > Len(items) THEN [panic |-> FALSE, version |-> version]
    ELSE CHOOSE out \in
             { IF ~parsed.ok \/ i > VersionItems
               THEN [panic |-> TRUE, version |-> version]
               ELSE VersionFrom(items, i + 1, [version EXCEPT ![i] = parsed.value]) :
                 parsed \in {ParseUnsigned(Trim(items[i]), U8Max)} } : TRUE

get_version(env) ==
    IF ~env.set THEN [panic |-> TRUE, version |-> Zeroed(VersionItems)]
    ELSE CHOOSE out \in
             { VersionFrom(items, 1, Zeroed(VersionItems)) :
                 items \in {Split(env.text, VERSION_SPLIT_CHAR)} } : TRUE

\* solution_thresholds.rs:24-26
get_solution_threshold(env) ==
    IF ~env.set THEN [panic |-> TRUE, value |-> 0]
    ELSE CHOOSE out \in
             { [panic |-> ~parsed.ok, value |-> parsed.value] :
                 parsed \in {ParseUnsigned(Trim(env.text), UsizeModelMax)} } : TRUE

\* main.rs:39-41: the setting parsed, or 4 when it is unset or does not parse
DefaultThreads == 4

get_number_of_threads(env) ==
    CHOOSE out \in
        { IF parsed.ok THEN parsed.value ELSE DefaultThreads :
            parsed \in {ParseUnsigned(IF env.set THEN env.text ELSE <<"4">>,
                                      UsizeModelMax)} } : TRUE

(***************************************************************************)
(* State                                                                   *)
(***************************************************************************)
VARIABLES
    \* identity codec: the key to encode, the identity bytes handed to the
    \* decoder, the decoder's result, and the position in encode -> decode
    c_pc, c_key, c_id, c_result,
    \* Packet::new: its arguments (the operator key, the nonce to send), the
    \* version setting, the build's field order, its locals, the packet it
    \* returns and the bytes the sender makes of it; p_redrawn records that the
    \* sampling loop has rejected a draw
    p_pc, p_version, p_key, p_in_nonce, p_layout,
    p_header, p_message, p_hasher, p_shared, p_gamming_key, p_nonce_buffer,
    p_gamma, p_solution_nonce, p_signature, p_packet, p_wire, p_redrawn

codecVars == <<c_pc, c_key, c_id, c_result>>

packetArgs == <<p_version, p_key, p_in_nonce, p_layout>>

packetLocals ==
    <<p_header, p_message, p_hasher, p_shared, p_gamming_key, p_nonce_buffer,
      p_gamma, p_solution_nonce, p_signature>>

packetVars == <<p_pc, packetArgs, packetLocals, p_packet, p_wire, p_redrawn>>

VARIABLES
    m_public_key, m_solution_threshold, m_mining_data,
    m_score_counter, m_iteration_counter, m_found_nonce, m_lock,
    w_pc, w_nonce, w_neuron_links, w_neuron_values, w_nonce_for_send,
    s_pc, s_data_for_send, s_packet_num, s_sent_score_counter,
    h_attempts, h_written, h_drained,
    h_found, h_staged_from, h_queue_from, h_sent_from, h_drained_from, h_late_from

\* the fields of Miner
minerFields ==
    <<m_public_key, m_solution_threshold, m_mining_data, m_score_counter,
      m_iteration_counter, m_found_nonce, m_lock>>

\* the locals of one worker task of Miner::run, per worker
workerVars == <<w_pc, w_nonce, w_neuron_links, w_neuron_values, w_nonce_for_send>>

\* the locals of send_solution_task and the counter it shares with the display
senderVars == <<s_pc, s_data_for_send, s_packet_num, s_sent_score_counter>>

\* the record of what happened: the attempts made, the nonces written to the
\* socket and the nonces removed from the queue, in order
historyVars == <<h_attempts, h_written, h_drained>>

\* where each nonce comes from: the qualifying nonces each worker has found
\* so far, and for the staging vectors, the queue, the batch being sent and
\* the nonces removed, the pair <<worker, ordinal of the find>> of each entry;
\* and the entries appended to the queue since the sender last built packets
originVars ==
    <<h_found, h_staged_from, h_queue_from, h_sent_from, h_drained_from, h_late_from>>

minerVars == <<minerFields, workerVars, senderVars, historyVars, originVars>>

VARIABLES
    k_pc, k_public_key, k_mining_data, k_solution_threshold, k_calls,
    k_nonce, k_neuron_links, k_neuron_values, k_score, k_remaining_iterations,
    k_event, k_events, k_result

\* what a call of find_solution reads: the fields of Miner, and the calls made
kernelArgs == <<k_public_key, k_mining_data, k_solution_threshold>>

\* the arguments and locals of find_solution that a call writes
kernelLocals ==
    <<k_nonce, k_neuron_links, k_neuron_values, k_score, k_remaining_iterations,
      k_event, k_events, k_result>>

kernelVars == <<k_pc, k_calls, kernelArgs, kernelLocals>>

VARIABLES
    \* the start of the program: the settings of the environment, what
    \* async_main makes of them, the workers started and the exit code
    a_pc, a_threads_env, a_id_env, a_version_env, a_seed_input, a_threshold_env,
    a_number_of_threads, a_version, a_random_seed, a_solution_threshold,
    a_id_ok, a_public_key, a_workers, a_panic, a_exit_code

\* the environment of the process
startupEnv == <<a_threads_env, a_id_env, a_version_env, a_seed_input, a_threshold_env>>

\* the locals of async_main
startupLocals ==
    <<a_number_of_threads, a_version, a_random_seed, a_solution_threshold, a_id_ok,
      a_public_key>>

startupVars == <<a_pc, startupEnv, startupLocals, a_workers, a_panic, a_exit_code>>

VARIABLES
    \* a RequestResponseHeader on its own: the arguments of new and the
    \* version setting, the header, and what get_size returned
    q_pc, q_in_type, q_in_size, q_version, q_header, q_got_size

headerVars == <<q_pc, q_in_type, q_in_size, q_version, q_header, q_got_size>>

VARIABLES
    e_pc, e_public_key, e_nonce, e_size, e_state, e_output, e_permutations

\* one call of random_64: its arguments, the state array and the output
\* written so far, and the permutations applied so far
expanderVars == <<e_pc, e_public_key, e_nonce, e_size, e_state, e_output, e_permutations>>

VARIABLES
    l_pc, l_nonce_for_send, l_found_nonce, l_lock, l_try, l_spc, l_packet_num

\* the worker loops and the sender running without end: per worker its place
\* in the loop, the number of nonces it has staged and whether a try-acquire
\* of it has failed; the length of the queue, the mutex, the sender's place
\* and its packet_num
liveVars == <<l_pc, l_nonce_for_send, l_found_nonce, l_lock, l_try, l_spc, l_packet_num>>

\* the variables that the steps of one part of the program leave alone
exceptCodec ==
    <<packetVars, minerVars, kernelVars, startupVars, headerVars, expanderVars, liveVars>>
exceptPacket ==
    <<codecVars, minerVars, kernelVars, startupVars, headerVars, expanderVars, liveVars>>
exceptMiner ==
    <<codecVars, packetVars, kernelVars, startupVars, headerVars, expanderVars, liveVars>>
exceptKernel ==
    <<codecVars, packetVars, minerVars, startupVars, headerVars, expanderVars, liveVars>>
exceptStartup ==
    <<codecVars, packetVars, minerVars, kernelVars, headerVars, expanderVars, liveVars>>
exceptHeader ==
    <<codecVars, packetVars, minerVars, kernelVars, startupVars, expanderVars, liveVars>>
exceptExpander ==
    <<codecVars, packetVars, minerVars, kernelVars, startupVars, headerVars, liveVars>>
exceptLive ==
    <<codecVars, packetVars, minerVars, kernelVars, startupVars, headerVars, expanderVars>>

vars ==
    <<codecVars, packetVars, minerVars, kernelVars, startupVars, headerVars, expanderVars,
      liveVars>>

(***************************************************************************)
(* Packet::new as a state machine: the header and message are set up, the  *)
(* sampling loop runs one iteration per step, the solution nonce is        *)
(* masked, the signature slot is filled, and the sender turns the packet   *)
(* into bytes.                                                             *)
(***************************************************************************)
\* what _rdrand64_step may leave in its target (0 also when the draw fails)
RandWords == {U64Zero, ToU64(100)}

\* the calls explored: the VERSION setting (major.minor.patch), the operator
\* key and the nonce to send (the bytes 1, 2, ..., 32, or all ones)
PacketInputs ==
    {[version |-> <<1, 141, 0>>,
      key |-> <<U64Max, ToU64(123456789), U64Zero, ToU64(26)>>,
      in_nonce |-> BytesToWords([k \in 1..NUMBER_OF_NONCE |-> k])],
     [version |-> <<2, 7, 3>>,
      key |-> <<ToU64(1), ToU64(2), ToU64(3), U64Max>>,
      in_nonce |-> [k \in 1..NUMBER_OF_NONCE_64 |-> U64Max]],
     [version |-> <<0, 255, 9>>,
      key |-> <<ToU64(1), ToU64(2), ToU64(3), U64Max>>,
      in_nonce |-> BytesToWords([k \in 1..NUMBER_OF_NONCE |-> k])]}

NoPacket == [header |-> HeaderDefault, message |-> MessageDefault,
             solution_nonce |-> [k \in 1..NUMBER_OF_NONCE_64 |-> U64Zero],
             signature |-> [k \in 1..SignatureWords |-> U64Zero]]

PacketLocalsClear ==
    /\ p_header = HeaderDefault
    /\ p_message = MessageDefault
    /\ p_hasher = HasherDefault
    /\ p_shared = Zeroed(KEY_ITEM_NUM + NUMBER_OF_NONCE)
    /\ p_gamming_key = Zeroed(KEY_ITEM_NUM)
    /\ p_nonce_buffer = Zeroed(NUMBER_OF_NONCE)
    /\ p_gamma = Zeroed(NUMBER_OF_NONCE)
    /\ p_solution_nonce = [k \in 1..NUMBER_OF_NONCE_64 |-> U64Zero]
    /\ p_signature = [k \in 1..SignatureWords |-> U64Zero]
    /\ p_packet = NoPacket
    /\ p_wire = <<>>
    /\ p_redrawn = FALSE

PacketIdle ==
    /\ p_pc = "off"
    /\ p_version = <<0, 0, 0>>
    /\ p_key = DefaultPublicKey64
    /\ p_in_nonce = [k \in 1..NUMBER_OF_NONCE_64 |-> U64Zero]
    /\ p_layout = DeclaredOrder
    /\ PacketLocalsClear

PacketInit ==
    /\ p_pc = "call"
    /\ \E in \in PacketInputs :
         /\ p_version = in.version
         /\ p_key = in.key
         /\ p_in_nonce = in.in_nonce
    /\ p_layout \in PacketLayouts
    /\ PacketLocalsClear

\* network.rs:158-172: header, message, hasher and buffers
PacketBegin ==
    /\ p_pc = "call"
    /\ p_header' = RequestResponseHeaderNew(BROADCAST_MESSAGE, SizeOfPacket(p_layout), p_version)
    /\ p_message' = MessageFor(p_key)
    /\ p_hasher' = HasherDefault
    /\ p_shared' = Zeroed(KEY_ITEM_NUM + NUMBER_OF_NONCE)
    /\ p_gamming_key' = Zeroed(KEY_ITEM_NUM)
    /\ p_nonce_buffer' = Zeroed(NUMBER_OF_NONCE)
    /\ p_pc' = "loop"
    /\ UNCHANGED <<packetArgs, p_gamma, p_solution_nonce, p_signature, p_packet, p_wire,
                   p_redrawn, exceptPacket>>

\* network.rs:175-191: one iteration of the sampling loop
SampleNonce ==
    /\ p_pc = "loop"
    /\ \E draws \in [1..NUMBER_OF_NONCE_64 -> RandWords] :
         LET buffer == WordsToBytes(draws)
             shared == SubSeq(p_shared, 1, KEY_ITEM_NUM) \o buffer
             fin == finalize_xof_reset_into(update(p_hasher, shared), KEY_ITEM_NUM)
         IN  /\ p_nonce_buffer' = buffer
             /\ p_shared' = shared
             /\ p_gamming_key' = fin.out
             /\ p_hasher' = fin.hasher
             /\ p_pc' = IF LeavesLoop(fin.out) THEN "gamma" ELSE "loop"
             /\ p_redrawn' = (p_redrawn \/ ~LeavesLoop(fin.out))
    /\ UNCHANGED <<packetArgs, p_header, p_message, p_gamma, p_solution_nonce, p_signature,
                   p_packet, p_wire, exceptPacket>>

\* network.rs:192-210: the gamming nonce, gamma and the masked nonce
MakeSolutionNonce ==
    /\ p_pc = "gamma"
    /\ LET fin == finalize_xof_reset_into(update(p_hasher, p_gamming_key), NUMBER_OF_NONCE)
           masked == XorBytes(WordsToBytes(p_in_nonce), fin.out)
       IN  /\ p_message' = [p_message EXCEPT !.gamming_nonce = BytesToWords(p_nonce_buffer)]
           /\ p_gamma' = fin.out
           /\ p_hasher' = fin.hasher
           /\ p_nonce_buffer' = masked
           /\ p_solution_nonce' = BytesToWords(masked)
    /\ p_pc' = "sign"
    /\ UNCHANGED <<packetArgs, p_header, p_shared, p_gamming_key, p_signature, p_packet,
                   p_wire, p_redrawn, exceptPacket>>

\* network.rs:215-226, 233-242: the random signature and the returned packet
SignAndReturn ==
    /\ p_pc = "sign"
    /\ \E draws \in [1..SignatureWords -> RandWords] :
         /\ p_signature' = draws
         /\ p_packet' = [header |-> p_header, message |-> p_message,
                         solution_nonce |-> p_solution_nonce, signature |-> draws]
    /\ p_pc' = "built"
    /\ UNCHANGED <<packetArgs, p_header, p_message, p_hasher, p_shared, p_gamming_key,
                   p_nonce_buffer, p_gamma, p_solution_nonce, p_wire, p_redrawn, exceptPacket>>

\* main.rs:219: transmute::<Packet, [u8; size_of::<Packet>()]>(packet)
PacketToBytes ==
    /\ p_pc = "built"
    /\ p_wire' = PacketBytes(p_packet, p_layout)
    /\ p_pc' = "wire"
    /\ UNCHANGED <<packetArgs, packetLocals, p_packet, p_redrawn, exceptPacket>>

PacketNext == PacketBegin \/ SampleNonce \/ MakeSolutionNonce \/ SignAndReturn \/ PacketToBytes

(***************************************************************************)
(* The identity codec as a state machine: a key is encoded, the identity   *)
(* string travels through the environment (the ID setting), where one of   *)
(* its bytes may be replaced, and is decoded at start-up.                  *)
(***************************************************************************)
\* u64 limbs the keys are drawn from
LimbValues == {U64Zero, U64Max, ToU64(123456789)}

\* bytes outside 'A'..'Z': '@', '[', 'a'
ForeignBytes == {64, 91, 97}

NoResult == [ok |-> FALSE, public_key |-> DefaultPublicKey64, overflow |-> FALSE]

CodecIdle ==
    /\ c_pc = "off"
    /\ c_key = DefaultPublicKey64
    /\ c_id = <<>>
    /\ c_result = NoResult

CodecInit ==
    /\ c_pc = "key"
    /\ c_key \in [1..NumLimbs -> LimbValues]
    /\ c_id = <<>>
    /\ c_result = NoResult

Encode ==
    /\ c_pc = "key"
    /\ c_id' = get_id_from_public_key_64(c_key)
    /\ c_pc' = "encoded"
    /\ UNCHANGED <<c_key, c_result, exceptCodec>>

SetIdByte ==
    /\ c_pc = "encoded"
    /\ \E p \in 1..IdLen, b \in ForeignBytes : c_id' = [c_id EXCEPT ![p] = b]
    /\ c_pc' = "given"
    /\ UNCHANGED <<c_key, c_result, exceptCodec>>

\* the letters an operator writes fourteen times for one limb of the ID setting
LimbFillLetters == {LetterA, LetterZ}

\* the ID setting with the 14 letters of one limb all the same letter
SetIdLimb ==
    /\ c_pc = "encoded"
    /\ \E i \in 0..(NumLimbs - 1), b \in LimbFillLetters :
          c_id' = [p \in 1..IdLen |->
                      IF p > i * LimbDigits /\ p <= (i + 1) * LimbDigits THEN b ELSE c_id[p]]
    /\ c_pc' = "given"
    /\ UNCHANGED <<c_key, c_result, exceptCodec>>

\* converters.rs:15-33.  When public_key[i] * 26 + delta leaves the u64 range
\* the build decides: with overflow checks (debug profile) the call panics,
\* without them (release profile) the value wraps and the call goes on.
Decode ==
    /\ c_pc \in {"encoded", "given"}
    /\ \E r \in {get_public_key_64_from_id(c_id)} :
          /\ c_result' = r
          /\ c_pc' \in IF r.overflow THEN {"decoded", "panicked"} ELSE {"decoded"}
    /\ UNCHANGED <<c_key, c_id, exceptCodec>>

CodecNext == Encode \/ SetIdByte \/ SetIdLimb \/ Decode

(***************************************************************************)
(* The miner: the worker tasks of Miner::run and send_solution_task, which *)
(* share the queue found_nonce behind its mutex.  A step is one access to  *)
(* shared state together with the local work before it.  The sender holds  *)
(* the mutex over two steps while it builds the packets, which is when a   *)
(* worker's try_lock fails.  A packet in flight stands for the nonce it    *)
(* was built from.                                                         *)
(***************************************************************************)
\* num_threads, and the number of attempts the workers make in all
NumWorkers == 2
MaxAttempts == 2

Workers == 1..NumWorkers

\* Nonce64::default(), NeuronData::default()
Nonce64Default == [k \in 1..NUMBER_OF_NONCE_64 |-> U64Zero]
NeuronLinksDefault == [k \in 1..LinkWords |-> U64Zero]
NeuronValuesDefault == [i \in 1..NUMBER_OF_NEURONS |-> 0]

\* miner.rs:87-93: the tape is zeroed and then written by random_64 from the
\* random seed, used as key and as nonce
MiningDataZeroed(random_seed) == [k \in 1..MINING_DATA_LENGTH |-> U64Zero]

MiningDataNew(random_seed) == random_64(random_seed, random_seed, MINING_DATA_LENGTH)

\* Miner::new, Miner::run up to the first iteration of every worker, and
\* send_solution_task at its first sleep
MinerInit ==
    /\ m_public_key \in MinerKeys
    /\ m_solution_threshold \in Thresholds
    /\ \E seed \in MinerSeeds : m_mining_data = MiningDataNew(seed)
    /\ m_score_counter = 0
    /\ m_iteration_counter = 0
    /\ m_found_nonce = <<>>
    /\ m_lock = "free"
    /\ w_pc = [w \in Workers |-> "find"]
    /\ w_nonce = [w \in Workers |-> Nonce64Default]
    /\ w_neuron_links = [w \in Workers |-> NeuronLinksDefault]
    /\ w_neuron_values = [w \in Workers |-> NeuronValuesDefault]
    /\ w_nonce_for_send = [w \in Workers |-> <<>>]
    /\ s_pc = "sleep"
    /\ s_data_for_send = <<>>
    /\ s_packet_num = 0
    /\ s_sent_score_counter = 0
    /\ h_attempts = {}
    /\ h_written = <<>>
    /\ h_drained = <<>>
    /\ h_found = [w \in Workers |-> 0]
    /\ h_staged_from = [w \in Workers |-> <<>>]
    /\ h_queue_from = <<>>
    /\ h_sent_from = <<>>
    /\ h_drained_from = <<>>
    /\ h_late_from = <<>>

\* no miner was started
MinerIdle ==
    /\ m_public_key = DefaultPublicKey64
    /\ m_solution_threshold = 0
    /\ m_mining_data = [k \in 1..MINING_DATA_LENGTH |-> U64Zero]
    /\ m_score_counter = 0
    /\ m_iteration_counter = 0
    /\ m_found_nonce = <<>>
    /\ m_lock = "free"
    /\ w_pc = [w \in Workers |-> "off"]
    /\ w_nonce = [w \in Workers |-> Nonce64Default]
    /\ w_neuron_links = [w \in Workers |-> NeuronLinksDefault]
    /\ w_neuron_values = [w \in Workers |-> NeuronValuesDefault]
    /\ w_nonce_for_send = [w \in Workers |-> <<>>]
    /\ s_pc = "off"
    /\ s_data_for_send = <<>>
    /\ s_packet_num = 0
    /\ s_sent_score_counter = 0
    /\ h_attempts = {}
    /\ h_written = <<>>
    /\ h_drained = <<>>
    /\ h_found = [w \in Workers |-> 0]
    /\ h_staged_from = [w \in Workers |-> <<>>]
    /\ h_queue_from = <<>>
    /\ h_sent_from = <<>>
    /\ h_drained_from = <<>>
    /\ h_late_from = <<>>

\* the attempts begun so far: the iterations counted and those under way
AttemptsBegun == m_iteration_counter + Cardinality({w \in Workers : w_pc[w] # "find"})

\* Vec::append: the vector appended from is left empty
AppendedFromKept(other) == other

AppendedFrom(other) == <<>>

\* Vec::drain(0..n): the first n elements are removed, the rest moves up
VecDrainFromEnd(vec, n) == SubSeq(vec, 1, Len(vec) - n)

VecDrain(vec, n) == SubSeq(vec, n + 1, Len(vec))

\* Vec::append: the elements of the other vector go to the end, in order
VecAppendInFront(vec, other) == other \o vec

VecAppend(vec, other) == vec \o other

\* miner.rs:218-219: score_counter.fetch_add(1) when find_solution returned true
ScoreCounterAlways(counter, result) == counter + 1

ScoreCounterAfter(counter, result) == IF result THEN counter + 1 ELSE counter

\* miner.rs:218-221: find_solution on the worker's own nonce and neuron data,
\* and on success the score counter and the staging vector.  A panic inside
\* find_solution ends the worker task.
FindSolution(w) ==
    /\ w_pc[w] = "find"
    /\ AttemptsBegun < MaxAttempts
    /\ \E nonce \in MinerNonces :
         \E r \in {find_solution(m_public_key, nonce, w_neuron_values[w], m_mining_data,
                                 m_solution_threshold)} :
             /\ w_nonce' = [w_nonce EXCEPT ![w] = nonce]
             /\ w_neuron_links' = [w_neuron_links EXCEPT ![w] = r.links]
             /\ w_neuron_values' = [w_neuron_values EXCEPT ![w] = r.values]
             /\ h_attempts' = h_attempts \cup
                    {[nonce |-> nonce, result |-> r.result, score |-> r.score,
                      panic |-> r.panic]}
             /\ w_pc' = [w_pc EXCEPT ![w] = IF r.panic THEN "panicked" ELSE "commit"]
             /\ m_score_counter' = ScoreCounterAfter(m_score_counter, r.result)
             /\ w_nonce_for_send' =
                    [w_nonce_for_send EXCEPT ![w] = IF r.result THEN Append(@, nonce) ELSE @]
             /\ h_found' = [h_found EXCEPT ![w] = IF r.result THEN @ + 1 ELSE @]
             /\ h_staged_from' =
                    [h_staged_from EXCEPT
                        ![w] = IF r.result THEN Append(@, <<w, h_found[w] + 1>>) ELSE @]
    /\ UNCHANGED <<m_public_key, m_solution_threshold, m_mining_data, m_iteration_counter,
                   m_found_nonce, m_lock, senderVars, h_written, h_drained,
                   h_queue_from, h_sent_from, h_drained_from, h_late_from, exceptMiner>>

\* miner.rs:224: found_nonce.try_lock() is Ok exactly when nobody holds the mutex
TryLockAlwaysOk(lock) == TRUE

TryLockNeverOk(lock) == FALSE

TryLockOk(lock) == lock = "free"

\* miner.rs:223-227 with the staging vector not empty and the mutex free
AppendFound(w) ==
    /\ w_pc[w] = "commit"
    /\ w_nonce_for_send[w] # <<>>
    /\ TryLockOk(m_lock)
    /\ m_found_nonce' = VecAppend(m_found_nonce, w_nonce_for_send[w])
    /\ w_nonce_for_send' = [w_nonce_for_send EXCEPT ![w] = AppendedFrom(@)]
    /\ h_queue_from' = VecAppend(h_queue_from, h_staged_from[w])
    /\ h_staged_from' = [h_staged_from EXCEPT ![w] = AppendedFrom(@)]
    /\ h_late_from' = h_late_from \o h_staged_from[w]
    /\ w_pc' = [w_pc EXCEPT ![w] = "count"]
    /\ UNCHANGED <<m_public_key, m_solution_threshold, m_mining_data, m_score_counter,
                   m_iteration_counter, m_lock, w_nonce, w_neuron_links, w_neuron_values,
                   senderVars, historyVars, h_found, h_sent_from, h_drained_from,
                   exceptMiner>>

\* miner.rs:223-227 with nothing staged, or with try_lock failing
KeepStaged(w) ==
    /\ w_pc[w] = "commit"
    /\ (w_nonce_for_send[w] = <<>> \/ ~TryLockOk(m_lock))
    /\ w_pc' = [w_pc EXCEPT ![w] = "count"]
    /\ UNCHANGED <<minerFields, w_nonce, w_neuron_links, w_neuron_values, w_nonce_for_send,
                   senderVars, historyVars, originVars, exceptMiner>>

\* miner.rs:229
CountIteration(w) ==
    /\ w_pc[w] = "count"
    /\ m_iteration_counter' = m_iteration_counter + 1
    /\ w_pc' = [w_pc EXCEPT ![w] = "find"]
    /\ UNCHANGED <<m_public_key, m_solution_threshold, m_mining_data, m_score_counter,
                   m_found_nonce, m_lock, w_nonce, w_neuron_links, w_neuron_values,
                   w_nonce_for_send, senderVars, historyVars, originVars, exceptMiner>>

\* main.rs:195-199: after the sleep, is the queue empty (under the mutex)
CheckQueue ==
    /\ s_pc = "sleep"
    /\ m_lock = "free"
    /\ s_pc' = IF m_found_nonce # <<>> THEN "connect" ELSE "sleep"
    /\ UNCHANGED <<minerFields, workerVars, s_data_for_send, s_packet_num,
                   s_sent_score_counter, historyVars, originVars, exceptMiner>>

\* main.rs:203-208: connect fails, back to the sleep
ConnectErr ==
    /\ s_pc = "connect"
    /\ s_pc' = "sleep"
    /\ UNCHANGED <<minerFields, workerVars, s_data_for_send, s_packet_num,
                   s_sent_score_counter, historyVars, originVars, exceptMiner>>

\* main.rs:203-209: connect succeeds
ConnectOk ==
    /\ s_pc = "connect"
    /\ s_pc' = "writable"
    /\ UNCHANGED <<minerFields, workerVars, s_data_for_send, s_packet_num,
                   s_sent_score_counter, historyVars, originVars, exceptMiner>>

\* main.rs:211-212: writable() fails, back to the sleep
WritableErr ==
    /\ s_pc = "writable"
    /\ s_pc' = "sleep"
    /\ UNCHANGED <<minerFields, workerVars, s_data_for_send, s_packet_num,
                   s_sent_score_counter, historyVars, originVars, exceptMiner>>

\* main.rs:211-213: the socket is writable
WritableOk ==
    /\ s_pc = "writable"
    /\ s_pc' = "grab"
    /\ UNCHANGED <<minerFields, workerVars, s_data_for_send, s_packet_num,
                   s_sent_score_counter, historyVars, originVars, exceptMiner>>

\* main.rs:216: the sender takes the mutex
LockFoundNonce ==
    /\ s_pc = "grab"
    /\ m_lock = "free"
    /\ m_lock' = "sender"
    /\ s_pc' = "build"
    /\ UNCHANGED <<m_public_key, m_solution_threshold, m_mining_data, m_score_counter,
                   m_iteration_counter, m_found_nonce, workerVars, s_data_for_send,
                   s_packet_num, s_sent_score_counter, historyVars, originVars, exceptMiner>>

\* main.rs:217-223: one packet per queued nonce, the mutex released, and
\* packet_num = data_for_send.len() / size_of::<Packet>()
GrabData ==
    /\ s_pc = "build"
    /\ s_data_for_send' = m_found_nonce
    /\ s_packet_num' =
           (Len(m_found_nonce) * SizeOfPacket(p_layout)) \div SizeOfPacket(p_layout)
    /\ h_sent_from' = h_queue_from
    /\ h_late_from' = <<>>
    /\ m_lock' = "free"
    /\ s_pc' = "write"
    /\ UNCHANGED <<m_public_key, m_solution_threshold, m_mining_data, m_score_counter,
                   m_iteration_counter, m_found_nonce, workerVars, s_sent_score_counter,
                   historyVars, h_found, h_staged_from, h_queue_from, h_drained_from,
                   exceptMiner>>

\* main.rs:228-234: write_all succeeds
WriteOk ==
    /\ s_pc = "write"
    /\ s_sent_score_counter' = s_sent_score_counter + s_packet_num
    /\ h_written' = h_written \o s_data_for_send
    /\ s_pc' = "drain"
    /\ UNCHANGED <<minerFields, workerVars, s_data_for_send, s_packet_num, h_attempts,
                   h_drained, originVars, exceptMiner>>

\* main.rs:228-230: write_all fails
WriteErr ==
    /\ s_pc = "write"
    /\ s_pc' = "drain"
    /\ UNCHANGED <<minerFields, workerVars, s_data_for_send, s_packet_num,
                   s_sent_score_counter, historyVars, originVars, exceptMiner>>

\* main.rs:237: drain(0..packet_num) under the mutex, after either outcome of
\* the write, then the sleep at the end of the iteration
DrainFoundNonce ==
    /\ s_pc = "drain"
    /\ m_lock = "free"
    /\ s_packet_num <= Len(m_found_nonce)
    /\ m_found_nonce' = VecDrain(m_found_nonce, s_packet_num)
    /\ h_queue_from' = VecDrain(h_queue_from, s_packet_num)
    /\ h_drained' = h_drained \o SubSeq(m_found_nonce, 1, s_packet_num)
    /\ h_drained_from' = h_drained_from \o SubSeq(h_queue_from, 1, s_packet_num)
    /\ s_pc' = "sleep"
    /\ UNCHANGED <<m_public_key, m_solution_threshold, m_mining_data, m_score_counter,
                   m_iteration_counter, m_lock, workerVars, s_data_for_send, s_packet_num,
                   s_sent_score_counter, h_attempts, h_written, h_found, h_staged_from,
                   h_sent_from, h_late_from, exceptMiner>>

WorkerNext(w) == FindSolution(w) \/ AppendFound(w) \/ KeepStaged(w) \/ CountIteration(w)

SenderNext ==
    \/ CheckQueue
    \/ ConnectErr
    \/ ConnectOk
    \/ WritableErr
    \/ WritableOk
    \/ LockFoundNonce
    \/ GrabData
    \/ WriteOk
    \/ WriteErr
    \/ DrainFoundNonce

MinerNext == (\E w \in Workers : WorkerNext(w)) \/ SenderNext

(***************************************************************************)
(* find_solution step by step, as one worker calls it again and again: the *)
(* nonce is drawn and the table derived, the table is masked, the scoring  *)
(* loop runs one round per step, and the call returns.                     *)
(***************************************************************************)
\* The tape is Keccak-p[1600] output too: next to the tapes the stand-in
\* yields for the seeds above stand a tape of bits all 1, a tape of bits all
\* 0, and a tape with bit 0 set and no other.
PatternTapes ==
    { [k \in 1..MINING_DATA_LENGTH |-> U64Max],
      [k \in 1..MINING_DATA_LENGTH |-> U64Zero],
      [k \in 1..MINING_DATA_LENGTH |-> IF k = 1 THEN ToU64(1) ELSE U64Zero] }

KernelTapes ==
    { random_64(seed, seed, MINING_DATA_LENGTH) : seed \in KernelSeeds } \cup PatternTapes

\* the bits of the tape, and the threshold settings of the calls taken one by
\* one: those of the miner and one above the index of the tape's last bit
TapeBits == WordBits * MINING_DATA_LENGTH
KernelThresholds == Thresholds \cup {TapeBits}

KernelLocalsClear ==
    /\ k_nonce = Nonce64Default
    /\ k_neuron_links = NeuronLinksDefault
    /\ k_neuron_values = NeuronValuesDefault
    /\ k_score = 0
    /\ k_remaining_iterations = 0
    /\ k_event = "none"
    /\ k_events = <<>>
    /\ k_result = FALSE

\* a worker of Miner::run before its first call
KernelInit ==
    /\ k_pc = "call"
    /\ k_calls = 0
    /\ k_public_key \in KernelKeys
    /\ k_mining_data \in KernelTapes
    /\ k_solution_threshold \in KernelThresholds
    /\ KernelLocalsClear

KernelIdle ==
    /\ k_pc = "off"
    /\ k_calls = 0
    /\ k_public_key = DefaultPublicKey64
    /\ k_mining_data = [k \in 1..MINING_DATA_LENGTH |-> U64Zero]
    /\ k_solution_threshold = 0
    /\ KernelLocalsClear

\* miner.rs:141-144: the nonce is drawn and the link table written
DeriveLinks ==
    /\ k_pc = "call"
    /\ \E nonce \in KernelNonces :
         /\ k_nonce' = nonce
         /\ k_neuron_links' = derive_links(k_public_key, nonce)
    /\ k_calls' = k_calls + 1
    /\ k_pc' = "derived"
    /\ UNCHANGED <<kernelArgs, k_neuron_values, k_score, k_remaining_iterations, k_event,
                   k_events, k_result, exceptKernel>>

\* miner.rs:147-154: the table is masked, the budget and the score are set
MaskTable ==
    /\ k_pc = "derived"
    /\ k_neuron_links' = MaskLinks(k_neuron_links)
    /\ k_remaining_iterations' = MINING_DATA_LENGTH
    /\ k_score' = 0
    /\ k_events' = <<>>
    /\ k_pc' = "loop"
    /\ UNCHANGED <<kernelArgs, k_calls, k_nonce, k_neuron_values, k_event, k_result,
                   exceptKernel>>

\* miner.rs:156-199: one round; when the loop breaks the call returns
\* score >= solution_threshold
ScoreRound ==
    /\ k_pc = "loop"
    /\ \E r \in {ScoringRound(k_neuron_links, k_neuron_values, k_mining_data, k_score,
                              k_remaining_iterations)} :
           /\ k_neuron_values' = r.values
           /\ k_score' = r.score
           /\ k_remaining_iterations' = r.remaining
           /\ k_event' = r.event
           /\ k_pc' = CASE r.status = "continue" -> "loop"
                        [] r.status = "break" -> "returned"
                        [] OTHER -> "panicked"
           /\ k_result' = (r.status = "break"
                           /\ ScoreMeetsThreshold(r.score, k_solution_threshold))
           /\ k_events' = Append(k_events, r.event)
    /\ UNCHANGED <<kernelArgs, k_calls, k_nonce, k_neuron_links, exceptKernel>>

\* miner.rs:215-218: the worker's loop comes round to the next call, with the
\* neuron data as the last call left it
CallAgain ==
    /\ k_pc = "returned"
    /\ k_calls < MaxAttempts
    /\ k_pc' = "call"
    /\ UNCHANGED <<kernelArgs, k_calls, kernelLocals, exceptKernel>>

KernelNext == DeriveLinks \/ MaskTable \/ ScoreRound \/ CallAgain

(***************************************************************************)
(* The start of the program: main runs async_main, which reads the         *)
(* settings, converts and decodes the identity, and starts the miner and   *)
(* the two tasks, which never end.                                         *)
(***************************************************************************)
\* the decimal notation of a number, an item with whitespace around it, and
\* the items joined by commas: the strings a seed setting is written as
RECURSIVE DecimalChars(_)
DecimalChars(n) ==
    IF n < 10 THEN <<DigitChars[n + 1]>>
    ELSE Append(DecimalChars(n \div 10), DigitChars[(n % 10) + 1])

Blanks(n, c) == [k \in 1..n |-> c]

RECURSIVE JoinItems(_)
JoinItems(items) ==
    IF Len(items) = 1 THEN items[1]
    ELSE items[1] \o <<RANDOM_SEED_SPLIT_CHAR>> \o JoinItems(Tail(items))

WrittenSeed(numbers, lead, trail) ==
    [env |-> Setting(JoinItems([i \in 1..Len(numbers) |->
                 Blanks(lead, " ") \o DecimalChars(numbers[i]) \o Blanks(trail, "\t")])),
     numbers |-> numbers,
     wellformed |-> TRUE]

Malformed(env) == [env |-> env, numbers |-> <<>>, wellformed |-> FALSE]

\* the lists of seed items written: one item, the eight items of the test of
\* random_seed.rs, 32 items, and 33 items
SeedLists ==
    { <<7>>,
      <<126, 27, 26, 27, 26, 27, 26, 27>>,
      [i \in 1..SEED_ITEM_NUM |-> (i * 37 + 218) % 256],
      [i \in 1..(SEED_ITEM_NUM + 1) |-> (i * 8 - 1) % 256] }

\* the seed settings explored: the lists in decimal with and without
\* whitespace, the string of the test of random_seed.rs, an item with a
\* sign, and settings that do not parse
SeedInputs ==
    { WrittenSeed(numbers, lead, trail) :
        numbers \in SeedLists, lead \in {0, 2}, trail \in {0, 1} }
    \cup { [env |-> Setting(<<" ", " ", "1", "2", "6", ",", " ", "2", "7", ",", " ", "2",
                             "6", ",", " ", "2", "7", ",", " ", " ", " ", " ", "2", "6",
                             ",", " ", "2", "7", ",", " ", "2", "6", ",", " ", "2", "7",
                             " ", " ">>),
            numbers |-> <<126, 27, 26, 27, 26, 27, 26, 27>>,
            wellformed |-> TRUE],
           [env |-> Setting(<<"+", "5", ",", "0", "0", "9">>),
            numbers |-> <<5, 9>>,
            wellformed |-> TRUE] }
    \cup { Malformed(env) :
             env \in { Unset,
                       Setting(<<>>),
                       Setting(<<"1", ",", ",", "2">>),
                       Setting(<<"2", "5", "6">>),
                       Setting(<<"1", " ", "2">>),
                       Setting(<<"7", ",">>),
                       Setting(<<"a">>) } }

\* the identity settings explored: the identities of two keys, each also one
\* letter short, one letter long and with a byte outside 'A'..'Z' in one
\* place, and no setting (get_id gives the empty string)
IdInputs ==
    {<<>>} \cup
    UNION { { id, SubSeq(id, 1, IdLen - 1), Append(id, LetterA) }
            \cup { [id EXCEPT ![pos] = b] : pos \in {1, 57, IdLen}, b \in ForeignBytes } :
            id \in { get_id_from_public_key_64(key) :
                       key \in { <<U64Max, ToU64(123456789), U64Zero, ToU64(26)>>,
                                 <<ToU64(1), ToU64(2), ToU64(3), ToU64(4)>> } } }

VersionInputs ==
    { Unset, Setting(<<"1", ".", "1", "4", "1", ".", "0">>),
      Setting(<<"1", ".", "2", ".", "3", ".", "4">>) }

ThresholdInputs == { Unset, Setting(<<" ", "4", "2">>), Setting(<<"x">>) }

ThreadsInputs == { Unset, Setting(<<"2">>) }

\* the exit status of a process whose main returns, and of one that panics
ExitSuccess == 0
ExitPanic == 101

StartupLocalsClear ==
    /\ a_number_of_threads = 0
    /\ a_version = Zeroed(VersionItems)
    /\ a_random_seed = Zeroed(SEED_ITEM_NUM)
    /\ a_solution_threshold = 0
    /\ a_id_ok = FALSE
    /\ a_public_key = DefaultPublicKey64
    /\ a_workers = 0
    /\ a_panic = "none"
    /\ a_exit_code = ExitSuccess

StartupInit ==
    /\ a_pc = "start"
    /\ a_threads_env \in ThreadsInputs
    /\ a_id_env \in IdInputs
    /\ a_version_env \in VersionInputs
    /\ a_seed_input \in SeedInputs
    /\ a_threshold_env \in ThresholdInputs
    /\ StartupLocalsClear

StartupIdle ==
    /\ a_pc = "off"
    /\ a_threads_env = Unset
    /\ a_id_env = <<>>
    /\ a_version_env = Unset
    /\ a_seed_input = Malformed(Unset)
    /\ a_threshold_env = Unset
    /\ StartupLocalsClear

\* main.rs:97-103: the settings are read in turn; get_version,
\* get_random_seed and get_solution_threshold panic on a setting that is
\* missing or does not parse, the first panic ends the process, and what
\* comes after it is not read
ReadConfig ==
    /\ a_pc = "start"
    /\ \E version \in {get_version(a_version_env)} :
       \E seed \in {get_random_seed(a_seed_input.env)} :
       \E threshold \in {get_solution_threshold(a_threshold_env)} :
           /\ a_number_of_threads' = get_number_of_threads(a_threads_env)
           /\ a_panic' = CASE version.panic -> "version"
                           [] seed.panic -> "seed"
                           [] threshold.panic -> "threshold"
                           [] OTHER -> "none"
           /\ a_version' = IF version.panic THEN a_version ELSE version.version
           /\ a_random_seed' =
                  IF version.panic \/ seed.panic THEN a_random_seed ELSE seed.seed
           /\ a_solution_threshold' =
                  IF version.panic \/ seed.panic \/ threshold.panic
                  THEN a_solution_threshold ELSE threshold.value
           /\ IF version.panic \/ seed.panic \/ threshold.panic
              THEN a_pc' = "exited" /\ a_exit_code' = ExitPanic
              ELSE a_pc' = "configured" /\ a_exit_code' = a_exit_code
    /\ UNCHANGED <<startupEnv, a_id_ok, a_public_key, a_workers, exceptStartup>>

\* main.rs:116-122: the bytes of the identity string as an Id of 60 bytes;
\* on another length the error is logged and async_main returns
ConvertId ==
    /\ a_pc = "configured"
    /\ a_pc' = IF Len(a_id_env) = IdLen THEN "converted" ELSE "returned"
    /\ UNCHANGED <<startupEnv, startupLocals, a_workers, a_panic, a_exit_code, exceptStartup>>

\* main.rs:125-129: the identity is decoded; on false the error is logged and
\* async_main returns
DecodeId ==
    /\ a_pc = "converted"
    /\ \E r \in {get_public_key_64_from_id(a_id_env)} :
           /\ a_id_ok' = r.ok
           /\ a_public_key' = r.public_key
           /\ a_pc' = IF r.ok THEN "decoded" ELSE "returned"
    /\ UNCHANGED <<startupEnv, a_number_of_threads, a_version, a_random_seed,
                   a_solution_threshold, a_workers, a_panic, a_exit_code, exceptStartup>>

\* main.rs:132-148: the miner is made and one worker per thread started, then
\* the display and the sender are joined; neither of them ever ends
StartMiner ==
    /\ a_pc = "decoded"
    /\ a_workers' = a_number_of_threads
    /\ a_pc' = "mining"
    /\ UNCHANGED <<startupEnv, startupLocals, a_panic, a_exit_code, exceptStartup>>

\* main.rs:89-92: async_main has returned, block_on returns and so does main
MainReturns ==
    /\ a_pc = "returned"
    /\ a_exit_code' = ExitSuccess
    /\ a_pc' = "exited"
    /\ UNCHANGED <<startupEnv, startupLocals, a_workers, a_panic, exceptStartup>>

StartupNext == ReadConfig \/ ConvertId \/ DecodeId \/ StartMiner \/ MainReturns

(***************************************************************************)
(* A RequestResponseHeader on its own: new, randomize_dejavu, get_size.    *)
(***************************************************************************)
\* the type bytes, sizes below 2^24 and version settings of the calls
HeaderTypes == {0, BROADCAST_MESSAGE, 255}
HeaderSizes == {0, 1, 255, 256, 352, 65536, 16777215}
HeaderVersions == {<<1, 141, 0>>, <<2, 0, 3>>, <<0, 255, 9>>}

\* the 5 bytes behind the header in memory
BytesBehind == {Zeroed(5), [k \in 1..5 |-> 255]}

HeaderInit ==
    /\ q_pc = "call"
    /\ q_in_type \in HeaderTypes
    /\ q_in_size \in HeaderSizes
    /\ q_version \in HeaderVersions
    /\ q_header = HeaderDefault
    /\ q_got_size = U64Zero

HeaderIdle ==
    /\ q_pc = "off"
    /\ q_in_type = 0
    /\ q_in_size = 0
    /\ q_version = <<0, 0, 0>>
    /\ q_header = HeaderDefault
    /\ q_got_size = U64Zero

\* network.rs:28-36
HeaderNew ==
    /\ q_pc = "call"
    /\ q_header' = RequestResponseHeaderNew(q_in_type, q_in_size, q_version)
    /\ q_pc' = "built"
    /\ UNCHANGED <<q_in_type, q_in_size, q_version, q_got_size, exceptHeader>>

\* network.rs:88-97
RandomizeDejavu ==
    /\ q_pc = "built"
    /\ \E random \in RandWords : q_header' = randomize_dejavu(q_header, random)
    /\ q_pc' = "tagged"
    /\ UNCHANGED <<q_in_type, q_in_size, q_version, q_got_size, exceptHeader>>

\* network.rs:42-46
GetSize ==
    /\ q_pc \in {"built", "tagged"}
    /\ \E order \in HeaderLayouts, behind \in BytesBehind :
           q_got_size' = get_size(q_header, order, behind)
    /\ q_pc' = "read"
    /\ UNCHANGED <<q_in_type, q_in_size, q_version, q_header, exceptHeader>>

HeaderNext == HeaderNew \/ RandomizeDejavu \/ GetSize

(***************************************************************************)
(* One call of random_64 step by step: the state array is set up from the  *)
(* key and the nonce, and every chunk of the output takes one permutation  *)
(* of the state and a copy of its first words.                             *)
(***************************************************************************)
\* the chunks of the longest output, and the output lengths S
MaxChunks == 3

ExpanderSizes ==
    {1, STATE_SIZE_64 - 1, STATE_SIZE_64, STATE_SIZE_64 + 1,
     STATE_SIZE_64 * (MaxChunks - 1), STATE_SIZE_64 * (MaxChunks - 1) + 1,
     STATE_SIZE_64 * MaxChunks}

ExpanderKeys == KernelKeys
ExpanderNonces == MinerNonces \cup { <<U64Max, ToU64(7), U64Zero, ToU64(123456789)>> }

State64Default == [i \in 1..STATE_SIZE_64 |-> U64Zero]

ExpanderInit ==
    /\ e_pc = "call"
    /\ e_public_key \in ExpanderKeys
    /\ e_nonce \in ExpanderNonces
    /\ e_size \in ExpanderSizes
    /\ e_state = State64Default
    /\ e_output = <<>>
    /\ e_permutations = 0

ExpanderIdle ==
    /\ e_pc = "off"
    /\ e_public_key = DefaultPublicKey64
    /\ e_nonce = Nonce64Default
    /\ e_size = 0
    /\ e_state = State64Default
    /\ e_output = <<>>
    /\ e_permutations = 0

\* math.rs:23-32: the state is zeroed, the key is copied to its first words
\* and the nonce behind it
CopyKeyAndNonce ==
    /\ e_pc = "call"
    /\ e_state' = Tuple([i \in 1..STATE_SIZE_64 |->
                      IF i <= Len(e_public_key) THEN e_public_key[i]
                      ELSE IF i <= Len(e_public_key) + Len(e_nonce)
                           THEN e_nonce[i - Len(e_public_key)]
                      ELSE U64Zero])
    /\ e_pc' = "chunks"
    /\ UNCHANGED <<e_public_key, e_nonce, e_size, e_output, e_permutations, exceptExpander>>

\* math.rs:35-41: the next chunk: the state is permuted and its first words
\* are copied to the chunk
SqueezeChunk ==
    /\ e_pc = "chunks"
    /\ Len(e_output) < e_size
    /\ \E next \in {p1600(e_state, KECCAK_ROUND)} :
          /\ e_state' = next
          /\ e_output' = e_output \o SubSeq(next, 1, ChunkLen(e_size, Len(e_output)))
    /\ e_permutations' = e_permutations + 1
    /\ UNCHANGED <<e_pc, e_public_key, e_nonce, e_size, exceptExpander>>

\* math.rs:35, 42: no chunk is left, random_64 returns
ExpanderReturn ==
    /\ e_pc = "chunks"
    /\ Len(e_output) >= e_size
    /\ e_pc' = "returned"
    /\ UNCHANGED <<e_public_key, e_nonce, e_size, e_state, e_output, e_permutations,
                   exceptExpander>>

ExpanderNext == CopyKeyAndNonce \/ SqueezeChunk \/ ExpanderReturn

(***************************************************************************)
(* The worker loops of Miner::run and the loop of send_solution_task       *)
(* running without end.  What the loops do to the staging vectors, the     *)
(* queue and the mutex depends on the nonces only through their number, so *)
(* a vector is kept as its length; the two counters, which the loops only  *)
(* add to, are left out.  A call of find_solution returns true or false,   *)
(* as the nonce drawn decides.                                             *)
(***************************************************************************)
\* the nonces that are staged or queued at one time, in all
MaxQueued == 2

RECURSIVE StagedBy(_, _)
StagedBy(staged, ws) ==
    IF ws = {} THEN 0
    ELSE LET w == CHOOSE x \in ws : TRUE
         IN  staged[w] + StagedBy(staged, ws \ {w})

LiveInit ==
    /\ l_pc = [w \in Workers |-> "find"]
    /\ l_nonce_for_send = [w \in Workers |-> 0]
    /\ l_found_nonce = 0
    /\ l_lock = "free"
    /\ l_try = [w \in Workers |-> FALSE]
    /\ l_spc = "sleep"
    /\ l_packet_num = 0

LiveIdle ==
    /\ l_pc = [w \in Workers |-> "off"]
    /\ l_nonce_for_send = [w \in Workers |-> 0]
    /\ l_found_nonce = 0
    /\ l_lock = "free"
    /\ l_try = [w \in Workers |-> FALSE]
    /\ l_spc = "off"
    /\ l_packet_num = 0

\* miner.rs:218-221: the call of find_solution; on true the nonce is pushed
LiveFind(w) ==
    /\ l_pc[w] = "find"
    /\ \E result \in BOOLEAN :
          /\ result => l_found_nonce + StagedBy(l_nonce_for_send, Workers) < MaxQueued
          /\ l_nonce_for_send' =
                 [l_nonce_for_send EXCEPT ![w] = IF result THEN @ + 1 ELSE @]
    /\ l_pc' = [l_pc EXCEPT ![w] = "commit"]
    /\ UNCHANGED <<l_found_nonce, l_lock, l_try, l_spc, l_packet_num, exceptLive>>

\* miner.rs:223-230 with the staging vector not empty and the mutex free; the
\* loop starts again
LiveAppend(w) ==
    /\ l_pc[w] = "commit"
    /\ l_nonce_for_send[w] > 0
    /\ TryLockOk(l_lock)
    /\ l_found_nonce' = l_found_nonce + l_nonce_for_send[w]
    /\ l_nonce_for_send' = [l_nonce_for_send EXCEPT ![w] = 0]
    /\ l_pc' = [l_pc EXCEPT ![w] = "find"]
    /\ UNCHANGED <<l_lock, l_try, l_spc, l_packet_num, exceptLive>>

\* miner.rs:223-230 with nothing staged, or with try_lock failing; the loop
\* starts again
LiveKeep(w) ==
    /\ l_pc[w] = "commit"
    /\ (l_nonce_for_send[w] = 0 \/ ~TryLockOk(l_lock))
    /\ l_try' = [l_try EXCEPT ![w] = @ \/ l_nonce_for_send[w] > 0]
    /\ l_pc' = [l_pc EXCEPT ![w] = "find"]
    /\ UNCHANGED <<l_nonce_for_send, l_found_nonce, l_lock, l_spc, l_packet_num, exceptLive>>

\* main.rs:195-199: after the sleep, is the queue empty (under the mutex)
LiveCheckQueue ==
    /\ l_spc = "sleep"
    /\ l_lock = "free"
    /\ l_spc' = IF l_found_nonce > 0 THEN "connect" ELSE "sleep"
    /\ UNCHANGED <<l_pc, l_nonce_for_send, l_found_nonce, l_lock, l_try, l_packet_num,
                   exceptLive>>

\* main.rs:203-213: connect and writable succeed, or one of them fails
LiveConnect ==
    /\ l_spc = "connect"
    /\ \E ok \in BOOLEAN : l_spc' = IF ok THEN "grab" ELSE "sleep"
    /\ UNCHANGED <<l_pc, l_nonce_for_send, l_found_nonce, l_lock, l_try, l_packet_num,
                   exceptLive>>

\* main.rs:216: the sender takes the mutex
LiveLock ==
    /\ l_spc = "grab"
    /\ l_lock = "free"
    /\ l_lock' = "sender"
    /\ l_spc' = "build"
    /\ UNCHANGED <<l_pc, l_nonce_for_send, l_found_nonce, l_try, l_packet_num, exceptLive>>

\* main.rs:217-234: the packets are built, the mutex is released and
\* write_all succeeds or fails
LiveGrab ==
    /\ l_spc = "build"
    /\ l_packet_num' = l_found_nonce
    /\ l_lock' = "free"
    /\ l_spc' = "drain"
    /\ UNCHANGED <<l_pc, l_nonce_for_send, l_found_nonce, l_try, exceptLive>>

\* main.rs:237: drain(0..packet_num) under the mutex
LiveDrain ==
    /\ l_spc = "drain"
    /\ l_lock = "free"
    /\ l_found_nonce' = l_found_nonce - l_packet_num
    /\ l_spc' = "sleep"
    /\ UNCHANGED <<l_pc, l_nonce_for_send, l_lock, l_try, l_packet_num, exceptLive>>

LiveWorker(w) == LiveFind(w) \/ LiveAppend(w) \/ LiveKeep(w)

LiveSender ==
    LiveCheckQueue \/ LiveConnect \/ LiveLock \/ LiveGrab \/ LiveDrain

LiveNext == (\E w \in Workers : LiveWorker(w)) \/ LiveSender

(***************************************************************************)
(* Specifications                                                          *)
(***************************************************************************)
\* the parts of the program that a specification does not run
OthersIdle(part) ==
    /\ IF part = "codec" THEN TRUE ELSE CodecIdle
    /\ IF part = "packet" THEN TRUE ELSE PacketIdle
    /\ IF part = "miner" THEN TRUE ELSE MinerIdle
    /\ IF part = "kernel" THEN TRUE ELSE KernelIdle
    /\ IF part = "startup" THEN TRUE ELSE StartupIdle
    /\ IF part = "header" THEN TRUE ELSE HeaderIdle
    /\ IF part = "expander" THEN TRUE ELSE ExpanderIdle
    /\ IF part = "live" THEN TRUE ELSE LiveIdle

InitCodec == CodecInit /\ OthersIdle("codec")

SpecCodec == InitCodec /\ [][CodecNext]_vars

InitPacket == PacketInit /\ OthersIdle("packet")

SpecPacket == InitPacket /\ [][PacketNext]_vars

InitMiner == MinerInit /\ OthersIdle("miner")

Spec == InitMiner /\ [][MinerNext]_vars

InitKernel == KernelInit /\ OthersIdle("kernel")

SpecKernel == InitKernel /\ [][KernelNext]_vars

\* the worker task keeps running: a call in its scoring loop makes its next round
SpecKernelRuns == InitKernel /\ [][KernelNext]_vars /\ WF_vars(ScoreRound)

InitStartup == StartupInit /\ OthersIdle("startup")

SpecStartup == InitStartup /\ [][StartupNext]_vars

InitHeader == HeaderInit /\ OthersIdle("header")

SpecHeader == InitHeader /\ [][HeaderNext]_vars

InitExpander == ExpanderInit /\ OthersIdle("expander")

SpecExpander == InitExpander /\ [][ExpanderNext]_vars

InitLive == LiveInit /\ OthersIdle("live")

\* Every worker task and the sender task keep running (each has a thread of
\* the runtime: main.rs:79-84), and a worker that again and again stands at
\* its try-acquire with the mutex free makes the try with the mutex free.
SpecLive ==
    /\ InitLive
    /\ [][LiveNext]_vars
    /\ \A w \in Workers : WF_vars(LiveWorker(w)) /\ SF_vars(LiveAppend(w))
    /\ WF_vars(LiveSender)

(***************************************************************************)
(* Properties                                                              *)
(***************************************************************************)

\* C1: decoding the identity produced by encoding a key succeeds and returns
\* exactly that key, for every key of four u64 limbs.
C1_RoundTrip ==
    (c_pc = "decoded" /\ c_id = get_id_from_public_key_64(c_key))
        => (c_result.ok /\ c_result.public_key = c_key)

\* an untouched identity of a key with an all-ones limb has been decoded
C1_Witness ==
    /\ c_pc = "decoded"
    /\ c_id = get_id_from_public_key_64(c_key)
    /\ c_key[1] = U64Max
    /\ c_key[2] = ToU64(123456789)
    /\ c_result.ok
    /\ c_result.public_key = c_key

\* C2 as stated: an identity with a byte outside 'A'..'Z' at any of its 60
\* positions is never decoded successfully.
C2_RejectsForeignByteAnywhere ==
    (c_pc = "decoded" /\ \E p \in 1..IdLen : c_id[p] < LetterA \/ c_id[p] > LetterZ)
        => ~c_result.ok

\* C2 amended: an identity with a byte outside 'A'..'Z' among its first 56
\* positions is rejected with a cleared key; the 4 checksum positions are not
\* examined, so an identity whose first 56 bytes are letters is decoded
\* successfully whatever its last 4 bytes are.
C2_RejectsForeignByteInKeyDigits ==
    c_pc = "decoded" =>
        IF \E p \in 1..(NumLimbs * LimbDigits) : c_id[p] < LetterA \/ c_id[p] > LetterZ
        THEN ~c_result.ok /\ c_result.public_key = DefaultPublicKey64
        ELSE c_result.ok

\* an identity with a lowercase letter among the key digits has been rejected
C2_Witness ==
    /\ c_pc = "decoded"
    /\ c_id[30] = 97
    /\ ~c_result.ok

\* the gamming key a receiver derives from a packet: K12 of 32 zero bytes
\* followed by the packet's gamming_nonce
KeyOfPacket(packet) ==
    K12(Zeroed(KEY_ITEM_NUM) \o WordsToBytes(packet.message.gamming_nonce), KEY_ITEM_NUM)

PacketReturned == p_pc \in {"built", "wire"}

C4_GammaInvolution ==
    PacketReturned =>
        XorBytes(WordsToBytes(p_packet.solution_nonce), K12(KeyOfPacket(p_packet), NUMBER_OF_NONCE))
            = WordsToBytes(p_in_nonce)

\* the nonce 1, 2, ..., 32 has been masked (the masked nonce differs from it)
\* after the loop rejected at least one draw
C4_Witness ==
    /\ p_pc = "built"
    /\ p_redrawn
    /\ WordsToBytes(p_in_nonce) = [k \in 1..NUMBER_OF_NONCE |-> k]
    /\ p_packet.solution_nonce # p_in_nonce
    /\ XorBytes(WordsToBytes(p_packet.solution_nonce), p_gamma) = WordsToBytes(p_in_nonce)

\* C5: the bytes emitted for a packet are as many as its 3-byte little-endian
\* size field says, which is the sum of the field sizes.
C5_SizeFieldIsLength ==
    p_pc = "wire" =>
        /\ Len(p_wire) = SizeField(p_packet.header)
        /\ SizeField(p_packet.header) = 3 + 1 + 3 + 1 + 32 + 32 + 32 + 32 + 64

\* a packet has been turned into its 200 bytes
C5_Witness ==
    /\ p_pc = "wire"
    /\ Len(p_wire) = 200
    /\ p_packet.header.size = <<200, 0, 0>>

\* C6 as stated (0-based byte positions, fields in the declared order): byte 3
\* is the minor version, bytes 7..39 are zero and bytes 39..71 are the
\* operator key.
C6_LayoutAsStated ==
    (p_pc = "wire" /\ p_layout = DeclaredOrder) =>
        /\ p_wire[3 + 1] = p_version[2]
        /\ \A k \in 7..38 : p_wire[k + 1] = 0
        /\ [k \in 1..32 |-> p_wire[39 + k]] = WordsToBytes(p_key)

\* C6 amended: protocol is the minor version, the source key is zero and the
\* destination key is the operator key; in a build that keeps the declared
\* field order, byte 3 is the minor version, byte 7 is the type, bytes 8..40
\* are zero and bytes 40..72 are the operator key.
C6_LayoutDeclaredOrder ==
    /\ PacketReturned =>
        /\ p_packet.header.protocol = p_version[2]
        /\ p_packet.message.source_public_key = DefaultPublicKey64
        /\ p_packet.message.destination_public_key = p_key
    /\ (p_pc = "wire" /\ p_layout = DeclaredOrder) =>
        /\ p_wire[3 + 1] = p_version[2]
        /\ p_wire[7 + 1] = BROADCAST_MESSAGE
        /\ \A k \in 8..39 : p_wire[k + 1] = 0
        /\ [k \in 1..32 |-> p_wire[40 + k]] = WordsToBytes(p_key)

\* a packet for a non-zero operator key has been turned into bytes in the
\* declared field order
C6_Witness ==
    /\ p_pc = "wire"
    /\ p_layout = DeclaredOrder
    /\ p_key[1] = U64Max
    /\ p_wire[3 + 1] = 141
    /\ p_wire[40 + 1] = 255

C8_SameNonceSameOutcome ==
    \A a \in h_attempts : \A b \in h_attempts :
        a.nonce = b.nonce => (a.result = b.result /\ a.score = b.score)

\* C9: after the table is derived and masked, both u32 halves of every word of
\* the link table are below NUMBER_OF_NEURONS, so no round of the scoring loop
\* indexes neuron_values out of range; and the word 0xFFFF_FFFF_FFFF_FFFF
\* masks to two halves equal to NUMBER_OF_NEURONS - 1.
C9_LinksBelowNumberOfNeurons ==
    /\ k_pc \in {"loop", "returned", "panicked"} =>
          /\ Len(k_neuron_links) = NUMBER_OF_NEURONS_64 * 2
          /\ \A k \in 1..Len(k_neuron_links) :
                /\ LinkInRange(LinkLow(k_neuron_links[k]))
                /\ LinkInRange(LinkHigh(k_neuron_links[k]))
          /\ ~NeuronPass(k_neuron_links, k_neuron_values, 0).panic
    /\ LET masked == And64(U64Max, NEURON_MOD_BITS)
           last == ToU64(NUMBER_OF_NEURONS - 1)
       IN  /\ LinkLow(masked) = LinkLow(last)
           /\ LinkHigh(masked) = LinkLow(last)

\* a call in its scoring loop whose table was changed by the masking and holds
\* the largest link, NUMBER_OF_NEURONS - 1
C9_Witness ==
    /\ k_pc = "loop"
    /\ k_neuron_links # derive_links(k_public_key, k_nonce)
    /\ k_neuron_links = MaskLinks(derive_links(k_public_key, k_nonce))
    /\ \E k \in 1..Len(k_neuron_links) :
          LinkIndex(LinkLow(k_neuron_links[k])) = NUMBER_OF_NEURONS - 1

\* C10: a nonce leaves the queue only after it was written: the nonces drained
\* so far are the first of the nonces written so far, in order.
C10_DrainedOnlyWhenWritten ==
    /\ Len(h_drained) <= Len(h_written)
    /\ h_drained = SubSeq(h_written, 1, Len(h_drained))

\* C11: for any two qualifying nonces found by the same worker, the one found
\* first stands before the one found later: the removed nonces, then the queue,
\* then the worker's staging vector, list each worker's finds in the order of
\* finding, entry by entry the nonces the queue and the staging vector hold;
\* and the batch the sender packetizes is the queue as it stood, in its order.
FoundOrder(w) == h_drained_from \o h_queue_from \o h_staged_from[w]

C12_AboveTapeNeverQualifies ==
    (k_solution_threshold > TapeBits - 1 /\ k_pc = "returned")
        => (~k_result /\ k_score <= TapeBits - 1)

\* a later call has returned with a positive score under such a threshold
C12_Witness ==
    /\ k_solution_threshold > TapeBits - 1
    /\ k_pc = "returned"
    /\ k_calls > 1
    /\ k_score > 0

\* C13: with solution threshold 0, every call of find_solution that returns
\* returns true, the first call and the later ones, whatever the nonce, the
\* link table and the tape are.
C13_ThresholdZeroQualifies ==
    (k_solution_threshold = 0 /\ k_pc = "returned") => k_result

\* a later call has returned with score 0 under threshold 0
C13_Witness ==
    /\ k_solution_threshold = 0
    /\ k_pc = "returned"
    /\ k_calls > 1
    /\ k_score = 0

\* the case of C14: threshold 1, bits 0 and 1 of the tape set, and a call
\* that has returned after an A-event in its first round and a B-event in
\* its second
C14_Case ==
    /\ k_pc = "returned"
    /\ k_solution_threshold = 1
    /\ TapeBit(k_mining_data, 0) = 1
    /\ TapeBit(k_mining_data, 1) = 1
    /\ Len(k_events) >= 2
    /\ k_events[1] = "A"
    /\ k_events[2] = "B"

\* C14 (as stated): in that case find_solution returns true with score 2.
C14_ScoreTwo == C14_Case => (k_result /\ k_score = 2)

\* C14 (amended): in that case find_solution returns true with score 1; the
\* B-event of the second round finds bit 1 set and ends the loop there.
C14_ScoreOne == C14_Case => (k_result /\ k_score = 1 /\ Len(k_events) = 2)

C14_Witness == C14_Case /\ k_calls = 1

\* C19: at every tape lookup of the scoring loop the bit index score is at
\* most the index of the tape's last bit, and no call ends in a panic.
C19_LookupInsideTape ==
    /\ k_pc = "loop" => k_score <= TapeBits - 1
    /\ k_pc # "panicked"

\* C20: at the start of the scoring loop of every call of find_solution all
\* neuron values are 0xFF.
C20_ValuesAllOnesAtLoopStart ==
    (k_pc = "loop" /\ k_events = <<>>)
        => \A i \in 1..NUMBER_OF_NEURONS : k_neuron_values[i] = 255

\* the identity setting does not parse: it is not 60 bytes long, or the
\* decoder refuses it
IdentityFails ==
    Len(a_id_env) # IdLen \/ ~get_public_key_64_from_id(a_id_env).ok

\* C15: when the identity fails to parse, the program ends with a non-zero
\* exit code and has started no mining worker.
C15_IdentityFailureExitsNonZero ==
    (a_pc = "exited" /\ IdentityFails) => (a_exit_code # 0 /\ a_workers = 0)

\* C16: for a seed string written as k <= 32 items in decimal, with or
\* without whitespace around each item, get_random_seed does not panic, and
\* the seed it returns holds the i-th item at place i for i < k and 0 at the
\* places from k on.
C16_SeedItemsInOrder ==
    (a_pc # "start" /\ a_panic # "version" /\ a_seed_input.wellformed
                    /\ Len(a_seed_input.numbers) <= SEED_ITEM_NUM)
        => /\ a_panic # "seed"
           /\ \A i \in 1..SEED_ITEM_NUM :
                a_random_seed[i] = IF i <= Len(a_seed_input.numbers)
                                   THEN a_seed_input.numbers[i]
                                   ELSE 0

\* the string of the test of random_seed.rs has been read: eight items with
\* whitespace around them, 24 places left at 0
C16_Witness ==
    /\ a_pc = "configured"
    /\ a_seed_input.wellformed
    /\ Len(a_seed_input.numbers) = 8
    /\ \E i \in 1..Len(a_seed_input.env.text) : IsWhitespace(a_seed_input.env.text[i])
    /\ a_random_seed[1] = 126
    /\ a_random_seed[8] = 27
    /\ a_random_seed[9] = 0

\* the expansions of the random seeds, each derived once
MinerTapes == { random_64(seed, seed, MINING_DATA_LENGTH) : seed \in MinerSeeds }

C18_GetSizeReturnsSize == q_pc = "read" => q_got_size = ToU64(q_in_size)


\* C21: a round of the scoring loop that looks up a bit of the tape (score
\* below the number of tape bits) does exactly one of three things, told
\* apart by the two last neurons before and after the pass and by the bit at
\* index score: an A-event on bit 1 or a B-event on bit 0 adds 1 to score,
\* leaves remaining alone and the loop goes on; an A-event on bit 0 or a
\* B-event on bit 1 ends the loop with score and remaining as they were; a
\* round in which both or neither of the two neurons changed takes 1 from
\* remaining, leaves score alone, and ends the loop exactly when remaining is 0.
C21_RoundDoesOneOfThree ==
    [][(k_pc = "loop" /\ k_score < TapeBits) =>
        LET prev0 == k_neuron_values[NUMBER_OF_NEURONS]
            prev1 == k_neuron_values[NUMBER_OF_NEURONS - 1]
            cur0 == k_neuron_values'[NUMBER_OF_NEURONS]
            cur1 == k_neuron_values'[NUMBER_OF_NEURONS - 1]
            bit == TapeBit(k_mining_data, k_score)
            a == cur0 # prev0 /\ cur1 = prev1
            b == cur1 # prev1 /\ cur0 = prev0
        IN  \/ /\ (a /\ bit = 1) \/ (b /\ bit = 0)
               /\ k_score' = k_score + 1
               /\ k_remaining_iterations' = k_remaining_iterations
               /\ k_pc' = "loop"
            \/ /\ (a /\ bit = 0) \/ (b /\ bit = 1)
               /\ k_score' = k_score
               /\ k_remaining_iterations' = k_remaining_iterations
               /\ k_pc' = "returned"
            \/ /\ ~a /\ ~b
               /\ k_score' = k_score
               /\ k_remaining_iterations' = k_remaining_iterations - 1
               /\ k_pc' = (IF k_remaining_iterations' = 0 THEN "returned" ELSE "loop")]_vars

\* a call that has made a scoring A-event, a scoring B-event and a round in
\* which both neurons changed, and has returned
C21_Witness ==
    /\ k_pc = "returned"
    /\ k_score >= 2
    /\ \E i, j, n \in 1..Len(k_events) :
         k_events[i] = "A" /\ k_events[j] = "B" /\ k_events[n] = "neutral"


\* the A-event and the B-event of a round told by the low bits of the two
\* last neurons before and after it
LowBit(value) == value % 2

\* C22: in every state of a worker every neuron value is 0x00 or 0xFF, and
\* in every round of the scoring loop comparing the two last neurons before
\* and after the pass byte by byte tells an A-event and a B-event exactly
\* when comparing their low bits does.
C22_ValuesAllOrNothing ==
    /\ [](\A i \in 1..NUMBER_OF_NEURONS : k_neuron_values[i] \in {0, 255})
    /\ [][k_pc = "loop" =>
            LET prev0 == k_neuron_values[NUMBER_OF_NEURONS]
                prev1 == k_neuron_values[NUMBER_OF_NEURONS - 1]
                cur0 == k_neuron_values'[NUMBER_OF_NEURONS]
                cur1 == k_neuron_values'[NUMBER_OF_NEURONS - 1]
            IN  /\ IsAEvent(prev0, prev1, cur0, cur1)
                      <=> IsAEvent(LowBit(prev0), LowBit(prev1), LowBit(cur0), LowBit(cur1))
                /\ IsBEvent(prev0, prev1, cur0, cur1)
                      <=> IsBEvent(LowBit(prev0), LowBit(prev1), LowBit(cur0), LowBit(cur1))]_vars

\* a worker in its second call whose neurons hold both values, after a round
\* that was an A-event and a round that was a B-event
C22_Witness ==
    /\ k_calls = 2
    /\ k_pc = "returned"
    /\ \E i, j \in 1..NUMBER_OF_NEURONS : k_neuron_values[i] = 0 /\ k_neuron_values[j] = 255
    /\ \E i, j \in 1..Len(k_events) : k_events[i] = "A" /\ k_events[j] = "B"


\* C23: a worker never waits for the mutex of found_nonce.  A worker that has
\* come to its try-acquire can always take its next step, whoever holds the
\* mutex.  With nonces staged, that step is one try-acquire: when the mutex
\* is held the staging vector, the queue and the mutex are left as they
\* were, and when it is free the staged nonces are appended to the queue in
\* staging order and the staging vector is emptied; either way the worker
\* stands before the iteration counter, and its step after that adds 1 to
\* the counter and takes it to the next attempt.
C23_TryAcquireNeverWaits ==
    /\ [](\A w \in Workers :
            /\ w_pc[w] = "commit" => ENABLED (AppendFound(w) \/ KeepStaged(w))
            /\ w_pc[w] = "count" => ENABLED CountIteration(w))
    /\ [][\A w \in Workers :
            /\ (w_pc[w] = "commit" /\ w_pc'[w] # "commit" /\ w_nonce_for_send[w] # <<>>) =>
                  /\ w_pc'[w] = "count"
                  /\ m_lock' = m_lock
                  /\ m_iteration_counter' = m_iteration_counter
                  /\ IF m_lock # "free"
                     THEN /\ w_nonce_for_send'[w] = w_nonce_for_send[w]
                          /\ m_found_nonce' = m_found_nonce
                     ELSE /\ w_nonce_for_send'[w] = <<>>
                          /\ m_found_nonce' = m_found_nonce \o w_nonce_for_send[w]
            /\ (w_pc[w] = "count" /\ w_pc'[w] # "count") =>
                  /\ w_pc'[w] = "find"
                  /\ m_iteration_counter' = m_iteration_counter + 1
                  /\ w_nonce_for_send'[w] = w_nonce_for_send[w]]_vars

\* a worker whose try-acquire failed while the sender held the mutex: it
\* stands before the iteration counter with its nonce still staged, and the
\* queue holds a nonce another try-acquire put there
C23_Witness ==
    \E w \in Workers :
        /\ w_pc[w] = "count"
        /\ w_nonce_for_send[w] # <<>>
        /\ m_lock = "sender"
        /\ m_found_nonce # <<>>


\* C24: the score counter grows by 1 in the step in which a worker's call of
\* find_solution returns true and in no other step; the iteration counter
\* grows by 1 in the step that ends a worker's iteration, whatever the call
\* returned and whether or not nonces are still staged after the try-acquire,
\* and in no other step; no step lowers either counter; and the score counter
\* is never above the iteration counter plus the number of workers.
C24_CountersCountAttempts ==
    /\ [](/\ m_score_counter <= m_iteration_counter + NumWorkers
          /\ m_score_counter <= m_iteration_counter
                   + Cardinality({w \in Workers : w_pc[w] \in {"commit", "count"}}))
    /\ [][/\ m_score_counter' >= m_score_counter
          /\ m_iteration_counter' >= m_iteration_counter
          /\ \A w \in Workers :
                (w_pc[w] = "find" /\ w_pc'[w] = "commit") =>
                    /\ m_score_counter' = m_score_counter +
                          (IF find_solution(m_public_key, w_nonce'[w], w_neuron_values[w],
                                            m_mining_data, m_solution_threshold).result
                           THEN 1 ELSE 0)
                    /\ m_iteration_counter' = m_iteration_counter
          /\ (\A w \in Workers : ~(w_pc[w] = "find" /\ w_pc'[w] = "commit"))
                => m_score_counter' = m_score_counter
          /\ \A w \in Workers :
                (w_pc[w] = "count" /\ w_pc'[w] = "find") =>
                    m_iteration_counter' = m_iteration_counter + 1
          /\ (\A w \in Workers : ~(w_pc[w] = "count" /\ w_pc'[w] = "find"))
                => m_iteration_counter' = m_iteration_counter]_vars

\* two iterations counted, one whose call returned true and one whose call
\* returned false
C24_Witness ==
    /\ m_iteration_counter = 2
    /\ m_score_counter = 1
    /\ \E a \in h_attempts : ~a.result
    /\ \E a \in h_attempts : a.result


AbsorbedState(key, nonce) ==
    [i \in 1..STATE_SIZE_64 |->
        IF i <= 4 THEN key[i] ELSE IF i <= 8 THEN nonce[i - 4] ELSE U64Zero]

RECURSIVE PermutedStates(_, _)
PermutedStates(state, count) ==
    IF count = 0 THEN <<>>
    ELSE CHOOSE out \in { <<next>> \o PermutedStates(next, count - 1) :
                            next \in {p1600(state, 12)} } : TRUE

\* C25: when random_64 has returned, output word k (from 0) is word k mod 25
\* of the state after floor(k / 25) + 1 applications of the 12-round
\* permutation to the state set up from key and nonce, for every output
\* length; the call has applied one permutation for every 25 words begun; and
\* the output for every shorter length is the beginning of this output.
C25_SqueezeWithoutReabsorbing ==
    e_pc = "returned" =>
        \E states \in {PermutedStates(AbsorbedState(e_public_key, e_nonce),
                                       (e_size + 24) \div 25)} :
            /\ Len(e_output) = e_size
            /\ e_permutations = (e_size + 24) \div 25
            /\ \A k \in 0..(e_size - 1) :
                  e_output[k + 1] = states[(k \div 25) + 1][(k % 25) + 1]
            /\ e_output = random_64(e_public_key, e_nonce, e_size)
            /\ \A shorter \in ExpanderSizes :
                  shorter <= e_size =>
                      random_64(e_public_key, e_nonce, shorter) = SubSeq(e_output, 1, shorter)

\* a call that has returned an output of more than two chunks whose last chunk
\* is a single word, with a key and a nonce that are not zero
C25_Witness ==
    /\ e_pc = "returned"
    /\ e_size > 2 * STATE_SIZE_64
    /\ e_size % STATE_SIZE_64 = 1
    /\ e_permutations >= 3
    /\ e_public_key # DefaultPublicKey64
    /\ e_nonce # Nonce64Default


\* the entries of a sequence, and how often an entry stands in it
Entries(seq) == { seq[i] : i \in 1..Len(seq) }
Occurrences(seq, entry) == Cardinality({ i \in 1..Len(seq) : seq[i] = entry })

\* C26: the step in which the sender drains the queue removes exactly the
\* nonces of the batch it packetized in that send, by value and by origin:
\* what is removed is the batch, in order; every entry that workers appended
\* between the building of the packets and the drain is still in the queue
\* after it, and what stays in the queue is what was appended in between.
C26_DrainRemovesThePacketized ==
    [][(s_pc = "drain" /\ s_pc' # "drain") =>
          /\ Len(m_found_nonce) = Len(m_found_nonce') + s_packet_num
          /\ m_found_nonce = s_data_for_send \o m_found_nonce'
          /\ h_queue_from = h_sent_from \o h_queue_from'
          /\ h_queue_from' = h_late_from
          /\ Entries(h_late_from) \cap Entries(h_sent_from) = {}
          /\ h_drained_from' = h_drained_from \o h_sent_from]_vars

\* the sender has drained a batch while a nonce that a worker appended after
\* the packets were built stays in the queue
C26_Witness ==
    /\ s_pc = "sleep"
    /\ h_drained_from # <<>>
    /\ h_late_from # <<>>
    /\ h_queue_from = h_late_from
    /\ Len(m_found_nonce) = Len(h_late_from)
    /\ \E w \in Workers : w_pc[w] = "count"

\* the places a find of worker w can be in: its staging vector, the queue,
\* the nonces the sender removed
PlacesOf(w) == h_staged_from[w] \o h_queue_from \o h_drained_from

\* C27: every find of a worker (a call of find_solution that returned true)
\* stands exactly once in the worker's staging vector, the queue and the
\* removed nonces taken together, and in no other worker's staging vector;
\* these places hold nothing but finds, entry by entry the nonces of the
\* staging vectors, the queue and the removed; and every nonce in the queue
\* is the nonce of an attempt that returned true.
C27_FindsKeptOnce ==
    /\ \A w \in Workers :
          /\ \A n \in 1..h_found[w] : Occurrences(PlacesOf(w), <<w, n>>) = 1
          /\ \A entry \in Entries(h_staged_from[w]) :
                entry[1] = w /\ entry[2] \in 1..h_found[w]
          /\ Len(h_staged_from[w]) = Len(w_nonce_for_send[w])
    /\ \A entry \in Entries(h_queue_from \o h_drained_from) :
          entry[1] \in Workers /\ entry[2] \in 1..h_found[entry[1]]
    /\ Len(h_queue_from) = Len(m_found_nonce)
    /\ Len(h_drained_from) = Len(h_drained)
    /\ \A i \in 1..Len(m_found_nonce) :
          \E a \in h_attempts : a.nonce = m_found_nonce[i] /\ a.result
    /\ \A w \in Workers : \A i \in 1..Len(w_nonce_for_send[w]) :
          \E a \in h_attempts : a.nonce = w_nonce_for_send[w][i] /\ a.result

\* two finds in two places: one has been removed by the sender, the other is
\* still staged by its worker after a try-acquire that failed
C27_Witness ==
    /\ h_drained_from # <<>>
    /\ \E w \in Workers : h_staged_from[w] # <<>> /\ w_pc[w] = "find"
    /\ m_score_counter = 2


\* C29: every call of the scoring loop ends.  Every round ends the loop, adds 1
\* to score or takes 1 from remaining; a call never makes more than
\* MINING_DATA_LENGTH + 64 * MINING_DATA_LENGTH rounds, whatever the link
\* table and the tape; and a call that is in its loop comes to its end: it
\* returns, or it stops in the tape lookup with score at the number of tape
\* bits.
C29_ScoringLoopEnds ==
    /\ [](Len(k_events) <= MINING_DATA_LENGTH + 64 * MINING_DATA_LENGTH)
    /\ [][k_pc = "loop" =>
            \/ k_pc' # "loop"
            \/ k_score' = k_score + 1 /\ k_remaining_iterations' = k_remaining_iterations
            \/ k_score' = k_score /\ k_remaining_iterations' = k_remaining_iterations - 1]_vars
    /\ (k_pc = "loop") ~> (k_pc \in {"returned", "panicked"})

\* a call that has returned after scoring rounds and after using up its budget
\* of rounds without an event
C29_Witness ==
    /\ k_pc = "returned"
    /\ k_remaining_iterations = 0
    /\ k_score > 0
    /\ Len(k_events) = k_score + MINING_DATA_LENGTH


\* C30: for every identity whose first 56 bytes are all in 'A'..'Z', no step
\* pk[i] = pk[i] * 26 + digit of the decoder leaves the u64 range, so the call
\* neither panics nor returns a wrapped limb; this holds also for a limb of
\* fourteen 'Z'.
C30_AccumulationStaysInU64 ==
    (/\ c_pc \in {"decoded", "panicked"}
     /\ \A p \in 1..(NumLimbs * LimbDigits) : IsLetter(c_id[p]))
        => (c_pc = "decoded" /\ c_result.ok /\ ~c_result.overflow)

=============================================================================
